---------------------------- MODULE Spec2Model ----------------------------
(***************************************************************************)
(* Stream-processing engine of orderflow-bubbles (src/processing.rs):      *)
(* ProcessingState with add_trade, process_buffer and the detectors it     *)
(* calls, driven by the ingress and tick tasks of the stream adapters      *)
(* (src/streams/live.rs).                                                  *)
(*                                                                         *)
(* Prices are f64 in the source.  Here a price is an exact rational number *)
(* of eighths of a point: trade prices are integers n (n/8 points), and    *)
(* computed prices (the window VWAP) are reduced fractions [n, d].         *)
(* Times are milliseconds of the engine clock (SystemTime::now()).         *)
(***************************************************************************)
EXTENDS Integers, Sequences, FiniteSets, Bags, TLC

\* ------------------------------------------------------------------ bounds
MaxTrades == 3
MaxTime == 7000
MaxTicks == 7
MaxStackTrades == 9
MaxStackTime == 33000
MaxStackTicks == 4
MaxLockTrades == 3
MaxLockTime == 3000
MaxFlipTrades == 3
MaxFlipTime == 12000
MaxFlipTicks == 5
MaxBadTrades == 3
MaxBadTime == 3000
MaxBadTicks == 3
MaxWideTrades == 5
MaxLongTrades == 4
MaxLongTime == 1803000
MaxLongTicks == 5
MaxGapTrades == 5
MaxGapTime == 4000
MaxGapTicks == 4
MaxTurnTrades == 9
MaxTurnTime == 61000
MaxTurnTicks == 3
MaxConfTrades == 4
MaxConfTime == 12000
MaxConfTicks == 5
MaxOutTrades == 4
MaxOutTime == 901000
MaxOutTicks == 4

\* --------------------------------------------------------------- constants
T0 == 2000000
FLIP_COOLDOWN_MS == 2000
STACK_COOLDOWN_MS == 30000
CONFLUENCE_COOLDOWN_MS == 10000
CONFLUENCE_WINDOW_MS == 5000
STATS_PERIOD_MS == 5000
CVD_TREND_MS == 5000
CVD_HISTORY_MS == 30000
VOLUME_HISTORY_MS == 60000
AVG_VOLUME_SECONDS == 30
DEFAULT_AVG_VOLUME == 200
MIN_DELTA_FLOOR == 20
TREND_THRESHOLD == 100
MIN_LEVEL_VOLUME == 100
MIN_STACK_LEVELS == 4
ONE_MINUTE_MS == 60000
FIVE_MINUTES_MS == 300000
ZONE_AGE_WEAK_MS == 300000
ZONE_AGE_STRONG_MS == 900000
ZONE_AGE_DEFENDED_MS == 1800000
SIGNAL_RETENTION_MS == 1800000
F64_MAX_EIGHTHS == 1000000
U32_RANGE == 4

\* ----------------------------------------------------------------- helpers
Max(a, b) == IF a >= b THEN a ELSE b

Min(a, b) == IF a <= b THEN a ELSE b

Abs(x) == IF x < 0 THEN -x ELSE x

\* u64::saturating_sub
SatSub(a, b) == IF a >= b THEN a - b ELSE 0

RECURSIVE GCD(_, _)
GCD(a, b) == IF b = 0 THEN a ELSE GCD(b, a % b)

\* the exact value n/d (eighths of a point) as a reduced fraction
Rat(n, d) ==
    LET g == GCD(Abs(n), d)
    IN  [n |-> n \div g, d |-> d \div g]

RatInt(n) == [n |-> n, d |-> 1]

RatLeq(a, b) == a.n * b.d <= b.n * a.d

RatLt(a, b) == a.n * b.d < b.n * a.d

\* None / Some(x) of an Option
None == << >>

Some(x) == << x >>

IsSome(o) == Len(o) = 1

Unwrap(o) == o[1]

RECURSIVE SeqSum(_)
SeqSum(s) == IF s = << >> THEN 0 ELSE Head(s) + SeqSum(Tail(s))

RECURSIVE SelectSeqOf(_, _)
SelectSeqOf(s, S) ==
    IF s = << >> THEN << >>
    ELSE IF Head(s) \in S THEN << Head(s) >> \o SelectSeqOf(Tail(s), S)
         ELSE SelectSeqOf(Tail(s), S)

RECURSIVE SetSum(_, _)
SetSum(S, f) ==
    IF S = {} THEN 0
    ELSE LET x == CHOOSE y \in S : TRUE
         IN  f[x] + SetSum(S \ {x}, f)

\* mutant of RoundKey: truncation in place of rounding
RoundKeyTruncate(n) == n \div 2

\* (price * 4.0).round() as i64 for a trade price of n eighths (n >= 0):
\* f64::round rounds half-way cases away from zero
RoundKey(n) == (n + 1) \div 2

\* (avg_price * 4.0).round() as i64 for a rational price
RoundKeyRat(p) == (p.n + p.d) \div (2 * p.d)

\* price_key as f64 / 4.0, in eighths
KeyPrice(k) == 2 * k

\* largest power of two not above p (p >= 1)
RECURSIVE Pow2Floor(_)
Pow2Floor(p) == IF p < 2 THEN 1 ELSE 2 * Pow2Floor(p \div 2)

\* (total_vol as f64 * 0.7) as u32: the double nearest 0.7 lies below 0.7, so
\* the product of a multiple of ten rounds to the double below the integer
\* 7t/10 when 7t/10 is in the upper quarter of its binade, and truncates to
\* one less
TargetVol(t) ==
    LET P == (7 * t) \div 10
    IN  IF t % 10 = 0 /\ P > 0 /\ 4 * P > 7 * Pow2Floor(P) THEN P - 1 ELSE P


\* ------------------------------------------------------------------- state
VARIABLES
    pstate,      \* the ProcessingState behind the RwLock
    now,         \* the engine clock, ms
    tx,          \* the messages sent on the broadcast channel by the current tick
    lock,        \* holder of the RwLock write guard: "free", "ingress", "tick"
    pcTick,      \* position of the tick task
    pcIngress,   \* position of the ingress task
    inTrade,     \* the trade the ingress task is about to add
    ingested,    \* history: bag of all trades ever passed to add_trade
    aggregated,  \* history: bag of all trades summed into a tick's window
    lockMark,    \* history: ingested as it was when the tick task took the lock
    emitTimes,   \* history: per signal kind, the times of its last two emissions
    zoneMax,     \* history: per live zone, the maximum strength computed for it
    nTicks,      \* history: the number of rounds of the tick task so far
    lastOp       \* history: the operation that produced this state

vars ==
    << pstate, now, tx, lock, pcTick, pcIngress, inTrade, ingested, aggregated,
       lockMark, emitTimes, zoneMax, nTicks, lastOp >>

SignalKinds == {"delta_flip", "stacked_imbalance", "confluence"}

\* ProcessingState::new
NewState ==
    [ trade_buffer |-> << >>,
      bubble_counter |-> 0,
      cvd |-> 0,
      volume_profile |-> << >>,
      total_buy_volume |-> 0,
      total_sell_volume |-> 0,
      window_first_price |-> None,
      window_last_price |-> None,
      volume_history |-> << >>,
      absorption_zones |-> << >>,
      cvd_5s_ago |-> 0,
      cvd_history |-> << >>,
      prev_cvd_sign |-> 0,
      last_delta_flip_time |-> 0,
      last_stacked_imbalance_time |-> 0,
      last_stacked_imbalance_side |-> None,
      signal_history |-> << >>,
      recent_signals |-> << >>,
      session_high |-> RatInt(0),
      session_low |-> RatInt(F64_MAX_EIGHTHS),
      current_price |-> RatInt(0),
      last_stats_broadcast |-> 0,
      last_confluence_time |-> 0 ]

\* ------------------------------------------------------- broadcast channel
\* who is subscribed to the channel while a tick runs: nobody, receivers that
\* keep up, or a receiver more than the channel's bound behind
Subscribers == {"none", "prompt", "lagging"}

\* broadcast::Sender::send returns at once: Err(SendError) when no receiver
\* is subscribed, else Ok(receivers); a lagging receiver loses its oldest
\* messages on its own side
SendResult(rx) == IF rx = "none" THEN "Err" ELSE "Ok"

\* mutant of Send: a message is made only for a channel that takes it
SendIfSubscribed(tx0, rx, msg) ==
    IF SendResult(rx) = "Err" THEN tx0 ELSE Append(tx0, msg)

\* `let _ = tx.send(msg)`: the messages sent so far and this one; the result
\* of the send is dropped
Send(tx0, rx, msg) == Append(tx0, msg)

\* ------------------------------------------------------------ volume profile
\* the entry().and_modify().or_insert() of add_trade
ProfileAdd(profile, trade) ==
    LET price_key == RoundKey(trade.price)
        rounded_price == KeyPrice(price_key)
        isBuy == trade.side = "buy"
        isSell == trade.side = "sell"
        old == profile[price_key]
        level ==
            IF price_key \in DOMAIN profile
            THEN [ price |-> old.price,
                   buy_volume |-> IF isBuy THEN old.buy_volume + trade.size
                                  ELSE old.buy_volume,
                   sell_volume |-> IF isBuy THEN old.sell_volume
                                   ELSE old.sell_volume + trade.size,
                   total_volume |-> old.total_volume + trade.size ]
            ELSE [ price |-> rounded_price,
                   buy_volume |-> IF isBuy THEN trade.size ELSE 0,
                   sell_volume |-> IF isSell THEN trade.size ELSE 0,
                   total_volume |-> trade.size ]
    IN  [k \in DOMAIN profile \cup {price_key} |->
            IF k = price_key THEN level ELSE profile[k]]

\* mutant of AddTradeState: the sign of a sell is lost in the cvd update
AddTradeStateUnsigned(ps, trade) ==
    [ ps EXCEPT
        !.cvd = @ + trade.size,
        !.total_buy_volume = IF trade.side = "buy" THEN @ + trade.size ELSE @,
        !.total_sell_volume = IF trade.side = "buy" THEN @ ELSE @ + trade.size,
        !.window_first_price = IF @ = None THEN Some(trade.price) ELSE @,
        !.window_last_price = Some(trade.price),
        !.volume_profile = ProfileAdd(@, trade),
        !.trade_buffer = Append(@, trade) ]

\* ProcessingState::add_trade
AddTradeState(ps, trade) ==
    LET delta == IF trade.side = "buy" THEN trade.size ELSE -trade.size
    IN  [ ps EXCEPT
            !.cvd = @ + delta,
            !.total_buy_volume =
                IF trade.side = "buy" THEN @ + trade.size ELSE @,
            !.total_sell_volume =
                IF trade.side = "buy" THEN @ ELSE @ + trade.size,
            !.window_first_price = IF @ = None THEN Some(trade.price) ELSE @,
            !.window_last_price = Some(trade.price),
            !.volume_profile = ProfileAdd(@, trade),
            !.trade_buffer = Append(@, trade) ]

\* get_poc: max_by_key over the HashMap's values returns one of the levels of
\* maximal total_volume; which one depends on the map's iteration order, so
\* every such key is a possible result
PocKeys(profile) ==
    { k \in DOMAIN profile :
        \A j \in DOMAIN profile : profile[j].total_volume <= profile[k].total_volume }

LevelVolume(profile, k) ==
    IF k \in DOMAIN profile THEN profile[k].total_volume ELSE 0

\* the while loop of get_value_area
RECURSIVE ExpandValueArea(_, _, _, _, _)
ExpandValueArea(profile, high_key, low_key, included_vol, target_vol) ==
    LET above_vol == LevelVolume(profile, high_key + 1)
        below_vol == LevelVolume(profile, low_key - 1)
    IN  IF included_vol >= target_vol THEN << high_key, low_key >>
        ELSE IF above_vol = 0 /\ below_vol = 0 THEN << high_key, low_key >>
        ELSE IF above_vol >= below_vol
             THEN ExpandValueArea(profile, high_key + 1, low_key,
                                  included_vol + above_vol, target_vol)
             ELSE ExpandValueArea(profile, high_key, low_key - 1,
                                  included_vol + below_vol, target_vol)

\* get_value_area, given the key get_poc returned: << high_key, low_key >>
\* (the caller divides by 4); None on an empty profile
ValueAreaKeys(profile, poc_key) ==
    IF DOMAIN profile = {} THEN None
    ELSE Some(ExpandValueArea(
                  profile, poc_key, poc_key, profile[poc_key].total_volume,
                  TargetVol(SetSum(DOMAIN profile,
                                   [k \in DOMAIN profile |-> profile[k].total_volume]))))

\* |price - level| <= 0.5 for a rational price and a level at key k
WithinTolerance(price, k) ==
    Abs(price.n - KeyPrice(k) * price.d) <= 4 * price.d

\* is_at_key_level: << at_poc, at_vah, at_val >>
IsAtKeyLevel(profile, poc_key, price) ==
    LET near(va) == << WithinTolerance(price, poc_key),
                       WithinTolerance(price, va[1]),
                       WithinTolerance(price, va[2]) >>
    IN  IF DOMAIN profile = {} THEN << FALSE, FALSE, FALSE >>
        ELSE near(Unwrap(ValueAreaKeys(profile, poc_key)))

\* mutant of CalculateStrength: the base strength is the event count itself
CalculateStrengthFromCount(event_count, at_key_level, against_trend) ==
    LET base_strength == IF event_count >= 3 THEN 3 ELSE event_count
        bonus == (IF at_key_level THEN 1 ELSE 0) + (IF against_trend THEN 1 ELSE 0)
        total == base_strength + bonus
    IN  IF total >= 3 THEN 3 ELSE total

\* mutant of CalculateStrength: the event count adds nothing
CalculateStrengthBonusOnly(event_count, at_key_level, against_trend) ==
    (IF at_key_level THEN 1 ELSE 0) + (IF against_trend THEN 1 ELSE 0)

\* calculate_strength_with_num (the numeric part)
CalculateStrength(event_count, at_key_level, against_trend) ==
    LET base_strength ==
            CASE event_count = 1 -> 0
              [] event_count = 2 -> 1
              [] event_count = 3 -> 2
              [] OTHER -> 3
        bonus == (IF at_key_level THEN 1 ELSE 0) + (IF against_trend THEN 1 ELSE 0)
        total == base_strength + bonus
    IN  IF total >= 3 THEN 3 ELSE total

\* strength_num_to_str
StrengthNumToStr(num) ==
    CASE num = 0 -> "weak"
      [] num = 1 -> "medium"
      [] num = 2 -> "strong"
      [] OTHER -> "defended"


\* ----------------------------------------------------------- time windows
\* cleanup_old_zones
CleanupOldZones(zones, t) ==
    LET max_age_ms(z) ==
            CASE z.peak_strength <= 1 -> ZONE_AGE_WEAK_MS
              [] z.peak_strength = 2 -> ZONE_AGE_STRONG_MS
              [] OTHER -> ZONE_AGE_DEFENDED_MS
        keep == { k \in DOMAIN zones :
                    zones[k].last_seen >= SatSub(t, max_age_ms(zones[k])) }
    IN  [k \in keep |-> zones[k]]

\* cleanup_volume_history
CleanupVolumeHistory(history, t) ==
    SelectSeq(history, LAMBDA e : e.timestamp >= SatSub(t, VOLUME_HISTORY_MS))

\* the retain of cleanup_cvd_history
CleanupCvdHistory(history, t) ==
    SelectSeq(history, LAMBDA e : e.ts >= SatSub(t, CVD_HISTORY_MS))

\* mutant of Cvd5sAgo: the oldest entry at or before the target (min_by_key)
Cvd5sAgoOldest(history, cvd, t) ==
    LET pick(old) == IF old = << >> THEN cvd ELSE old[1].cvd
    IN  pick(SelectSeq(history, LAMBDA e : e.ts <= SatSub(t, CVD_TREND_MS)))

\* mutant of Cvd5sAgo: unwrap_or(0) in place of unwrap_or(self.cvd)
Cvd5sAgoZeroDefault(history, cvd, t) ==
    LET pick(old) == IF old = << >> THEN 0 ELSE old[Len(old)].cvd
    IN  pick(SelectSeq(history, LAMBDA e : e.ts <= SatSub(t, CVD_TREND_MS)))

\* the cvd_5s_ago update of cleanup_cvd_history: max_by_key returns the last
\* of the entries of maximal ts among those with ts <= target
Cvd5sAgo(history, cvd, t) ==
    LET latest(old) ==
            old[CHOOSE i \in 1..Len(old) :
                    /\ \A j \in 1..Len(old) : old[j].ts <= old[i].ts
                    /\ \A j \in (i + 1)..Len(old) : old[j].ts < old[i].ts].cvd
        pick(old) == IF old = << >> THEN cvd ELSE latest(old)
    IN  pick(SelectSeq(history, LAMBDA e : e.ts <= SatSub(t, CVD_TREND_MS)))

\* get_avg_volume_per_second(30) followed by (avg_vol * 0.4).max(20.0) as i64
MinDeltaThreshold(history, t) ==
    LET threshold(recent) ==
            IF recent = << >>
            THEN Max((DEFAULT_AVG_VOLUME * 4) \div 10, MIN_DELTA_FLOOR)
            ELSE Max((SeqSum([i \in 1..Len(recent) |-> recent[i].volume]) * 4)
                         \div (AVG_VOLUME_SECONDS * 10),
                     MIN_DELTA_FLOOR)
    IN  threshold(SelectSeq(history,
                            LAMBDA e : e.timestamp >= SatSub(t, AVG_VOLUME_SECONDS * 1000)))

\* get_cvd_trend
CvdTrend(ps) == ps.cvd - ps.cvd_5s_ago

\* -------------------------------------------------- signal history and stats
\* mutant of Outcome: a move of exactly 2.0 points is a breakeven
OutcomeStrict(direction, price, current_price) ==
    LET num == current_price.n * price.d - price.n * current_price.d
        two == 16 * current_price.d * price.d
    IN  IF direction = "bullish"
        THEN IF num > two THEN "win"
             ELSE IF num < -two THEN "loss" ELSE "breakeven"
        ELSE IF num < -two THEN "win"
             ELSE IF num > two THEN "loss" ELSE "breakeven"

\* the outcome classification of update_signal_outcomes: move_amount is
\* current_price - record.price and min_move is 2.0 points, 16 eighths
Outcome(direction, price, current_price) ==
    LET num == current_price.n * price.d - price.n * current_price.d
        two == 16 * current_price.d * price.d
    IN  IF direction = "bullish"
        THEN IF num >= two THEN "win"
             ELSE IF num <= -two THEN "loss" ELSE "breakeven"
        ELSE IF num <= -two THEN "win"
             ELSE IF num >= two THEN "loss" ELSE "breakeven"

\* mutant of UpdateSignalOutcomes: a record is evicted at the age of 30 min
UpdateSignalOutcomesEvictAtLimit(history, t, current_price) ==
    LET upd(r) ==
            LET fill1 == r.price_after_1m = None
                         /\ SatSub(t, r.timestamp) >= ONE_MINUTE_MS
                fill5 == r.price_after_5m = None
                         /\ SatSub(t, r.timestamp) >= FIVE_MINUTES_MS
            IN  [ r EXCEPT
                    !.price_after_1m = IF fill1 THEN Some(current_price) ELSE @,
                    !.price_after_5m = IF fill5 THEN Some(current_price) ELSE @,
                    !.outcome = IF fill5
                                THEN Some(Outcome(r.direction, r.price, current_price))
                                ELSE @ ]
        updated == [i \in 1..Len(history) |-> upd(history[i])]
        cutoff == SatSub(t, SIGNAL_RETENTION_MS)
    IN  SelectSeq(updated, LAMBDA r : r.timestamp > cutoff)

\* mutant of UpdateSignalOutcomes: the one-minute price is taken again at
\* every call
UpdateSignalOutcomesRefill(history, t, current_price) ==
    LET upd(r) ==
            LET fill1 == SatSub(t, r.timestamp) >= ONE_MINUTE_MS
                fill5 == r.price_after_5m = None
                         /\ SatSub(t, r.timestamp) >= FIVE_MINUTES_MS
            IN  [ r EXCEPT
                    !.price_after_1m = IF fill1 THEN Some(current_price) ELSE @,
                    !.price_after_5m = IF fill5 THEN Some(current_price) ELSE @,
                    !.outcome = IF fill5
                                THEN Some(Outcome(r.direction, r.price, current_price))
                                ELSE @ ]
        updated == [i \in 1..Len(history) |-> upd(history[i])]
        cutoff == SatSub(t, SIGNAL_RETENTION_MS)
    IN  SelectSeq(updated, LAMBDA r : r.timestamp >= cutoff)

\* update_signal_outcomes
UpdateSignalOutcomes(history, t, current_price) ==
    LET upd(r) ==
            LET fill1 == r.price_after_1m = None
                         /\ SatSub(t, r.timestamp) >= ONE_MINUTE_MS
                fill5 == r.price_after_5m = None
                         /\ SatSub(t, r.timestamp) >= FIVE_MINUTES_MS
            IN  [ r EXCEPT
                    !.price_after_1m = IF fill1 THEN Some(current_price) ELSE @,
                    !.price_after_5m = IF fill5 THEN Some(current_price) ELSE @,
                    !.outcome = IF fill5
                                THEN Some(Outcome(r.direction, r.price, current_price))
                                ELSE @ ]
        updated == [i \in 1..Len(history) |-> upd(history[i])]
        cutoff == SatSub(t, SIGNAL_RETENTION_MS)
    IN  SelectSeq(updated, LAMBDA r : r.timestamp >= cutoff)

\* calculate_signal_stats: the counts (the averages are left out)
CalculateSignalStats(history, signal_type) ==
    LET n(signals, P(_)) == Cardinality({ i \in 1..Len(signals) : P(signals[i]) })
        rate(wins, losses) ==
            IF wins + losses > 0 THEN Rat(100 * wins, wins + losses) ELSE RatInt(0)
        stats(count, bullish, wins, losses) ==
            [ count |-> count,
              bullish_count |-> bullish,
              bearish_count |-> count - bullish,
              wins |-> wins,
              losses |-> losses,
              win_rate |-> rate(wins, losses) ]
        of(signals) ==
            stats(Len(signals),
                  n(signals, LAMBDA r : r.direction = "bullish"),
                  n(signals, LAMBDA r : r.outcome = Some("win")),
                  n(signals, LAMBDA r : r.outcome = Some("loss")))
    IN  of(SelectSeq(history, LAMBDA r : r.signal_type = signal_type))

\* mutant of SessionStatsMsg: the session high is the current price
SessionStatsMsgLatestHigh(ps) ==
    [ kind |-> "SessionStats",
      delta_flips |-> CalculateSignalStats(ps.signal_history, "delta_flip"),
      absorptions |-> CalculateSignalStats(ps.signal_history, "absorption"),
      stacked_imbalances |->
          CalculateSignalStats(ps.signal_history, "stacked_imbalance"),
      confluences |-> CalculateSignalStats(ps.signal_history, "confluence"),
      current_price |-> ps.current_price,
      session_high |-> ps.current_price,
      session_low |-> IF RatLt(ps.session_low, RatInt(F64_MAX_EIGHTHS))
                      THEN ps.session_low ELSE ps.current_price,
      total_volume |-> ps.total_buy_volume + ps.total_sell_volume ]

\* broadcast_stats: the SessionStats message
SessionStatsMsg(ps) ==
    [ kind |-> "SessionStats",
      delta_flips |-> CalculateSignalStats(ps.signal_history, "delta_flip"),
      absorptions |-> CalculateSignalStats(ps.signal_history, "absorption"),
      stacked_imbalances |->
          CalculateSignalStats(ps.signal_history, "stacked_imbalance"),
      confluences |-> CalculateSignalStats(ps.signal_history, "confluence"),
      current_price |-> ps.current_price,
      session_high |-> IF RatLt(RatInt(0), ps.session_high)
                       THEN ps.session_high ELSE ps.current_price,
      session_low |-> IF RatLt(ps.session_low, RatInt(F64_MAX_EIGHTHS))
                      THEN ps.session_low ELSE ps.current_price,
      total_volume |-> ps.total_buy_volume + ps.total_sell_volume ]

NewRecord(t, signal_type, direction, price) ==
    [ timestamp |-> t,
      price |-> price,
      signal_type |-> signal_type,
      direction |-> direction,
      price_after_1m |-> None,
      price_after_5m |-> None,
      outcome |-> None ]

\* mutant of DetectConfluence: a confluence exactly 10 s after the last one is
\* still inside the cooldown
DetectConfluenceStrictCooldown(c, t, price) ==
    LET recent == c.ps.recent_signals
        \* occurrences.last() of each type
        latest(ty) ==
            recent[CHOOSE i \in 1..Len(recent) :
                       /\ recent[i].signal_type = ty
                       /\ \A j \in (i + 1)..Len(recent) : recent[j].signal_type # ty]
        confluence(types, direction) ==
            [ kind |-> "Confluence",
              timestamp |-> t,
              price |-> price,
              direction |-> direction,
              score |-> Cardinality(types),
              signals |-> types ]
        emit(types, direction) ==
            [ ps |-> [ c.ps EXCEPT
                         !.last_confluence_time = t,
                         !.signal_history =
                             Append(@, NewRecord(t, "confluence", direction, price)),
                         !.recent_signals = << >> ],
              tx |-> Send(c.tx, c.rx, confluence(types, direction)),
              rx |-> c.rx ]
        decide(types, bullish_count, bearish_count) ==
            IF bullish_count < 2 /\ bearish_count < 2 THEN c
            ELSE emit(types, IF bullish_count >= 2 THEN "bullish" ELSE "bearish")
        count(types, bullish_count) ==
            decide(types, bullish_count, Cardinality(types) - bullish_count)
        group(types) ==
            IF Cardinality(types) < 2 THEN c
            ELSE count(types,
                       Cardinality({ ty \in types : latest(ty).direction = "bullish" }))
    IN  IF SatSub(t, c.ps.last_confluence_time) <= CONFLUENCE_COOLDOWN_MS THEN c
        ELSE IF Len(recent) < 2 THEN c
        ELSE group({ recent[i].signal_type : i \in 1..Len(recent) })

\* mutant of DetectConfluence: the score counts the agreeing kinds only
DetectConfluenceAgreeingScore(c, t, price) ==
    LET recent == c.ps.recent_signals
        \* occurrences.last() of each type
        latest(ty) ==
            recent[CHOOSE i \in 1..Len(recent) :
                       /\ recent[i].signal_type = ty
                       /\ \A j \in (i + 1)..Len(recent) : recent[j].signal_type # ty]
        confluence(types, direction) ==
            [ kind |-> "Confluence",
              timestamp |-> t,
              price |-> price,
              direction |-> direction,
              score |-> Cardinality({ ty \in types : latest(ty).direction = direction }),
              signals |-> types ]
        emit(types, direction) ==
            [ ps |-> [ c.ps EXCEPT
                         !.last_confluence_time = t,
                         !.signal_history =
                             Append(@, NewRecord(t, "confluence", direction, price)),
                         !.recent_signals = << >> ],
              tx |-> Send(c.tx, c.rx, confluence(types, direction)),
              rx |-> c.rx ]
        decide(types, bullish_count, bearish_count) ==
            IF bullish_count < 2 /\ bearish_count < 2 THEN c
            ELSE emit(types, IF bullish_count >= 2 THEN "bullish" ELSE "bearish")
        count(types, bullish_count) ==
            decide(types, bullish_count, Cardinality(types) - bullish_count)
        group(types) ==
            IF Cardinality(types) < 2 THEN c
            ELSE count(types,
                       Cardinality({ ty \in types : latest(ty).direction = "bullish" }))
    IN  IF SatSub(t, c.ps.last_confluence_time) < CONFLUENCE_COOLDOWN_MS THEN c
        ELSE IF Len(recent) < 2 THEN c
        ELSE group({ recent[i].signal_type : i \in 1..Len(recent) })

\* detect_confluence, on a context c = [ps, tx]
DetectConfluence(c, t, price) ==
    LET recent == c.ps.recent_signals
        \* occurrences.last() of each type
        latest(ty) ==
            recent[CHOOSE i \in 1..Len(recent) :
                       /\ recent[i].signal_type = ty
                       /\ \A j \in (i + 1)..Len(recent) : recent[j].signal_type # ty]
        confluence(types, direction) ==
            [ kind |-> "Confluence",
              timestamp |-> t,
              price |-> price,
              direction |-> direction,
              score |-> Cardinality(types),
              signals |-> types ]
        emit(types, direction) ==
            [ ps |-> [ c.ps EXCEPT
                         !.last_confluence_time = t,
                         !.signal_history =
                             Append(@, NewRecord(t, "confluence", direction, price)),
                         !.recent_signals = << >> ],
              tx |-> Send(c.tx, c.rx, confluence(types, direction)),
              rx |-> c.rx ]
        decide(types, bullish_count, bearish_count) ==
            IF bullish_count < 2 /\ bearish_count < 2 THEN c
            ELSE emit(types, IF bullish_count >= 2 THEN "bullish" ELSE "bearish")
        count(types, bullish_count) ==
            decide(types, bullish_count, Cardinality(types) - bullish_count)
        group(types) ==
            IF Cardinality(types) < 2 THEN c
            ELSE count(types,
                       Cardinality({ ty \in types : latest(ty).direction = "bullish" }))
    IN  IF SatSub(t, c.ps.last_confluence_time) < CONFLUENCE_COOLDOWN_MS THEN c
        ELSE IF Len(recent) < 2 THEN c
        ELSE group({ recent[i].signal_type : i \in 1..Len(recent) })

\* record_signal, on a context c = [ps, tx, rx]: the state, the messages sent
\* so far by this tick and the subscribers of the channel
RecordSignal(c, t, signal_type, direction, price) ==
    LET \* "Broadcast stats every 5 seconds"
        stats(ps3, tx3) ==
            IF SatSub(t, ps3.last_stats_broadcast) >= STATS_PERIOD_MS
            THEN [ ps |-> [ ps3 EXCEPT !.last_stats_broadcast = t ],
                   tx |-> Send(tx3, c.rx, SessionStatsMsg(ps3)),
                   rx |-> c.rx ]
            ELSE [ ps |-> ps3, tx |-> tx3, rx |-> c.rx ]
        \* "Update outcomes for past signals"
        outcomes(c2) ==
            stats([ c2.ps EXCEPT
                      !.signal_history = UpdateSignalOutcomes(@, t, price) ],
                  c2.tx)
        \* session high/low, recent_signals and signal_history
        pushed(ps0) ==
            [ ps0 EXCEPT
                !.session_high = IF RatLt(@, price) THEN price ELSE @,
                !.session_low = IF RatLt(price, @) /\ RatLt(RatInt(0), price)
                                THEN price ELSE @,
                !.current_price = price,
                !.recent_signals =
                    SelectSeq(Append(@, [ ts |-> t, signal_type |-> signal_type,
                                          direction |-> direction, price |-> price ]),
                              LAMBDA e : e.ts >= SatSub(t, CONFLUENCE_WINDOW_MS)),
                !.signal_history =
                    Append(@, NewRecord(t, signal_type, direction, price)) ]
    IN  outcomes(DetectConfluence([ c EXCEPT !.ps = pushed(@) ], t, price))


\* -------------------------------------------------------- stacked imbalances
\* the 1-point buckets of detect_stacked_imbalances: level.price.floor() of a
\* quarter-point level at key k is k \div 4
PointBuckets(profile) ==
    LET keys == { k \div 4 : k \in DOMAIN profile }
        at(pk) == { k \in DOMAIN profile : k \div 4 = pk }
    IN  [ pk \in keys |->
            [ buy |-> SetSum(at(pk), [k \in at(pk) |-> profile[k].buy_volume]),
              sell |-> SetSum(at(pk), [k \in at(pk) |-> profile[k].sell_volume]) ] ]

\* levels.sort_by_key
RECURSIVE SortedKeys(_)
SortedKeys(S) ==
    IF S = {} THEN << >>
    ELSE LET m == CHOOSE x \in S : \A y \in S : x <= y
         IN  << m >> \o SortedKeys(S \ {m})

\* "save best if applicable": the streak state w = [best, best_side, cur, cur_side]
SaveBest(w) ==
    IF Len(w.cur) > Len(w.best) /\ Len(w.cur) >= 3
    THEN [ w EXCEPT !.best = w.cur, !.best_side = w.cur_side ]
    ELSE w

\* one iteration of the loop over the sorted 1-point levels
StreakStep(w, price_key, b) ==
    LET total == b.buy + b.sell
        level_side ==
            IF 10 * b.buy >= 7 * total THEN Some("buy")
            ELSE IF 10 * b.buy <= 3 * total THEN Some("sell")
            ELSE None
        entry == [ key |-> price_key, delta |-> b.buy - b.sell ]
    IN  IF total < MIN_LEVEL_VOLUME
        THEN [ SaveBest(w) EXCEPT !.cur_side = None, !.cur = << >> ]
        ELSE IF level_side # None /\ level_side = w.cur_side
        THEN [ w EXCEPT !.cur = Append(@, entry) ]
        ELSE IF level_side # None
        THEN [ SaveBest(w) EXCEPT !.cur_side = level_side, !.cur = << entry >> ]
        ELSE [ SaveBest(w) EXCEPT !.cur_side = None, !.cur = << >> ]

RECURSIVE StreakWalk(_, _, _)
StreakWalk(w, keys, buckets) ==
    IF keys = << >> THEN SaveBest(w)
    ELSE StreakWalk(StreakStep(w, Head(keys), buckets[Head(keys)]),
                    Tail(keys), buckets)

\* the best streak found over the profile
BestStreak(profile) ==
    LET walk(buckets) ==
            StreakWalk([ best |-> << >>, best_side |-> None,
                         cur |-> << >>, cur_side |-> None ],
                       SortedKeys(DOMAIN buckets), buckets)
    IN  walk(PointBuckets(profile))

\* mutant of DetectStackedImbalances: a stack of the side last emitted is
\* emitted again
DetectStackedImbalancesAnySide(c, t) ==
    LET stacked(w, price_low, price_high) ==
            [ kind |-> "StackedImbalance",
              timestamp |-> t,
              side |-> Unwrap(w.best_side),
              level_count |-> Len(w.best),
              price_high |-> price_high,
              price_low |-> price_low,
              total_imbalance |->
                  SeqSum([i \in 1..Len(w.best) |-> Abs(w.best[i].delta)]) ]
        \* mid_price is (price_low + price_high) / 2.0 points, in eighths
        emit(w, price_low, price_high) ==
            RecordSignal(
                [ ps |-> [ c.ps EXCEPT
                             !.last_stacked_imbalance_time = t,
                             !.last_stacked_imbalance_side = w.best_side ],
                  tx |-> Send(c.tx, c.rx, stacked(w, price_low, price_high)),
                  rx |-> c.rx ],
                t, "stacked_imbalance",
                IF Unwrap(w.best_side) = "buy" THEN "bullish" ELSE "bearish",
                RatInt(4 * (price_low + price_high)))
        found(w) ==
            IF Len(w.best) < MIN_STACK_LEVELS \/ w.best_side = None THEN c
            ELSE emit(w, w.best[1].key, w.best[Len(w.best)].key + 1)
    IN  IF SatSub(t, c.ps.last_stacked_imbalance_time) < STACK_COOLDOWN_MS THEN c
        ELSE IF DOMAIN c.ps.volume_profile = {} THEN c
        ELSE found(BestStreak(c.ps.volume_profile))

\* detect_stacked_imbalances, on a context c = [ps, tx, rx]
DetectStackedImbalances(c, t) ==
    LET stacked(w, price_low, price_high) ==
            [ kind |-> "StackedImbalance",
              timestamp |-> t,
              side |-> Unwrap(w.best_side),
              level_count |-> Len(w.best),
              price_high |-> price_high,
              price_low |-> price_low,
              total_imbalance |->
                  SeqSum([i \in 1..Len(w.best) |-> Abs(w.best[i].delta)]) ]
        \* mid_price is (price_low + price_high) / 2.0 points, in eighths
        emit(w, price_low, price_high) ==
            RecordSignal(
                [ ps |-> [ c.ps EXCEPT
                             !.last_stacked_imbalance_time = t,
                             !.last_stacked_imbalance_side = w.best_side ],
                  tx |-> Send(c.tx, c.rx, stacked(w, price_low, price_high)),
                  rx |-> c.rx ],
                t, "stacked_imbalance",
                IF Unwrap(w.best_side) = "buy" THEN "bullish" ELSE "bearish",
                RatInt(4 * (price_low + price_high)))
        found(w) ==
            IF Len(w.best) < MIN_STACK_LEVELS \/ w.best_side = None THEN c
            ELSE IF c.ps.last_stacked_imbalance_side = w.best_side THEN c
            ELSE emit(w, w.best[1].key, w.best[Len(w.best)].key + 1)
    IN  IF SatSub(t, c.ps.last_stacked_imbalance_time) < STACK_COOLDOWN_MS THEN c
        ELSE IF DOMAIN c.ps.volume_profile = {} THEN c
        ELSE found(BestStreak(c.ps.volume_profile))


\* ------------------------------------------------------------ process_buffer
\* mutant of WindowOf: a tie of the two sides counts as a buy window
WindowOfTieBuy(buffer) ==
    LET vol(trades) == SeqSum([i \in 1..Len(trades) |-> trades[i].size])
        weighted(trades) ==
            SeqSum([i \in 1..Len(trades) |-> trades[i].price * trades[i].size])
        vwap(weighted_sum, total_size) ==
            \* 0.0 / 0.0 is NaN; not reached past the total_volume == 0 return
            IF total_size = 0 THEN RatInt(0) ELSE Rat(weighted_sum, total_size)
        avg(dominant_trades) ==
            IF dominant_trades # << >>
            THEN vwap(weighted(dominant_trades), vol(dominant_trades))
            ELSE Rat(SeqSum([i \in 1..Len(buffer) |-> buffer[i].price]), Len(buffer))
        window(total_buy_volume, total_sell_volume, delta, dominant_trades) ==
            [ total_buy_volume |-> total_buy_volume,
              total_sell_volume |-> total_sell_volume,
              total_volume |-> total_buy_volume + total_sell_volume,
              delta |-> delta,
              dominant_side |-> IF delta >= 0 THEN "buy" ELSE "sell",
              dominant_volume |-> IF delta >= 0 THEN total_buy_volume
                                  ELSE total_sell_volume,
              vwap_branch |-> dominant_trades # << >>,
              avg_price |-> avg(dominant_trades) ]
        sums(buys, sells, total_buy_volume, total_sell_volume) ==
            window(total_buy_volume, total_sell_volume,
                   total_buy_volume - total_sell_volume,
                   IF total_buy_volume - total_sell_volume >= 0 THEN buys ELSE sells)
        split(buys, sells) == sums(buys, sells, vol(buys), vol(sells))
    IN  split(SelectSeq(buffer, LAMBDA tr : tr.side = "buy"),
              SelectSeq(buffer, LAMBDA tr : tr.side # "buy"))

\* mutant of WindowOf: the price is the arithmetic mean of the window's trades
WindowOfMeanPrice(buffer) ==
    LET vol(trades) == SeqSum([i \in 1..Len(trades) |-> trades[i].size])
        weighted(trades) ==
            SeqSum([i \in 1..Len(trades) |-> trades[i].price * trades[i].size])
        vwap(weighted_sum, total_size) ==
            \* 0.0 / 0.0 is NaN; not reached past the total_volume == 0 return
            IF total_size = 0 THEN RatInt(0) ELSE Rat(weighted_sum, total_size)
        avg(dominant_trades) ==
            IF dominant_trades = << >>
            THEN vwap(weighted(dominant_trades), vol(dominant_trades))
            ELSE Rat(SeqSum([i \in 1..Len(buffer) |-> buffer[i].price]), Len(buffer))
        window(total_buy_volume, total_sell_volume, delta, dominant_trades) ==
            [ total_buy_volume |-> total_buy_volume,
              total_sell_volume |-> total_sell_volume,
              total_volume |-> total_buy_volume + total_sell_volume,
              delta |-> delta,
              dominant_side |-> IF delta > 0 THEN "buy" ELSE "sell",
              dominant_volume |-> IF delta > 0 THEN total_buy_volume
                                  ELSE total_sell_volume,
              vwap_branch |-> dominant_trades # << >>,
              avg_price |-> avg(dominant_trades) ]
        sums(buys, sells, total_buy_volume, total_sell_volume) ==
            window(total_buy_volume, total_sell_volume,
                   total_buy_volume - total_sell_volume,
                   IF total_buy_volume - total_sell_volume > 0 THEN buys ELSE sells)
        split(buys, sells) == sums(buys, sells, vol(buys), vol(sells))
    IN  split(SelectSeq(buffer, LAMBDA tr : tr.side = "buy"),
              SelectSeq(buffer, LAMBDA tr : tr.side # "buy"))

\* the aggregation of the buffer by side and the dominant side's price
WindowOf(buffer) ==
    LET vol(trades) == SeqSum([i \in 1..Len(trades) |-> trades[i].size])
        weighted(trades) ==
            SeqSum([i \in 1..Len(trades) |-> trades[i].price * trades[i].size])
        vwap(weighted_sum, total_size) ==
            \* 0.0 / 0.0 is NaN; not reached past the total_volume == 0 return
            IF total_size = 0 THEN RatInt(0) ELSE Rat(weighted_sum, total_size)
        avg(dominant_trades) ==
            IF dominant_trades # << >>
            THEN vwap(weighted(dominant_trades), vol(dominant_trades))
            ELSE Rat(SeqSum([i \in 1..Len(buffer) |-> buffer[i].price]), Len(buffer))
        window(total_buy_volume, total_sell_volume, delta, dominant_trades) ==
            [ total_buy_volume |-> total_buy_volume,
              total_sell_volume |-> total_sell_volume,
              total_volume |-> total_buy_volume + total_sell_volume,
              delta |-> delta,
              dominant_side |-> IF delta > 0 THEN "buy" ELSE "sell",
              dominant_volume |-> IF delta > 0 THEN total_buy_volume
                                  ELSE total_sell_volume,
              vwap_branch |-> dominant_trades # << >>,
              avg_price |-> avg(dominant_trades) ]
        sums(buys, sells, total_buy_volume, total_sell_volume) ==
            window(total_buy_volume, total_sell_volume,
                   total_buy_volume - total_sell_volume,
                   IF total_buy_volume - total_sell_volume > 0 THEN buys ELSE sells)
        split(buys, sells) == sums(buys, sells, vol(buys), vol(sells))
    IN  split(SelectSeq(buffer, LAMBDA tr : tr.side = "buy"),
              SelectSeq(buffer, LAMBDA tr : tr.side # "buy"))

\* mutant of DeltaFlipCooldownElapsed: no cooldown
NoFlipCooldown(t, last) == TRUE

\* "Cooldown of 2 seconds to prevent rapid-fire events"
DeltaFlipCooldownElapsed(t, last) == SatSub(t, last) > FLIP_COOLDOWN_MS

\* mutant of DetectDeltaFlip: the direction is that of the sign left behind
DetectDeltaFlipInverted(c, t, avg_price) ==
    LET delta_flip(direction) ==
            [ kind |-> "DeltaFlip",
              timestamp |-> t,
              direction |-> direction,
              cvd_before |-> c.ps.cvd_5s_ago,
              cvd_after |-> c.ps.cvd ]
        emit(direction) ==
            RecordSignal([ ps |-> [ c.ps EXCEPT !.last_delta_flip_time = t ],
                           tx |-> Send(c.tx, c.rx, delta_flip(direction)),
                           rx |-> c.rx ],
                         t, "delta_flip", direction, avg_price)
        flipped(current_cvd_sign) ==
            IF /\ c.ps.prev_cvd_sign # 0
               /\ current_cvd_sign # 0
               /\ c.ps.prev_cvd_sign # current_cvd_sign
               /\ DeltaFlipCooldownElapsed(t, c.ps.last_delta_flip_time)
            THEN emit(IF current_cvd_sign > 0 THEN "bearish" ELSE "bullish")
            ELSE c
        detect(current_cvd_sign) ==
            [ flipped(current_cvd_sign) EXCEPT !.ps.prev_cvd_sign = current_cvd_sign ]
    IN  detect(IF c.ps.cvd > 0 THEN 1 ELSE IF c.ps.cvd < 0 THEN -1 ELSE 0)

\* the delta-flip detection of process_buffer, on a context c = [ps, tx]
DetectDeltaFlip(c, t, avg_price) ==
    LET delta_flip(direction) ==
            [ kind |-> "DeltaFlip",
              timestamp |-> t,
              direction |-> direction,
              cvd_before |-> c.ps.cvd_5s_ago,
              cvd_after |-> c.ps.cvd ]
        emit(direction) ==
            RecordSignal([ ps |-> [ c.ps EXCEPT !.last_delta_flip_time = t ],
                           tx |-> Send(c.tx, c.rx, delta_flip(direction)),
                           rx |-> c.rx ],
                         t, "delta_flip", direction, avg_price)
        flipped(current_cvd_sign) ==
            IF /\ c.ps.prev_cvd_sign # 0
               /\ current_cvd_sign # 0
               /\ c.ps.prev_cvd_sign # current_cvd_sign
               /\ DeltaFlipCooldownElapsed(t, c.ps.last_delta_flip_time)
            THEN emit(IF current_cvd_sign > 0 THEN "bullish" ELSE "bearish")
            ELSE c
        detect(current_cvd_sign) ==
            [ flipped(current_cvd_sign) EXCEPT !.ps.prev_cvd_sign = current_cvd_sign ]
    IN  detect(IF c.ps.cvd > 0 THEN 1 ELSE IF c.ps.cvd < 0 THEN -1 ELSE 0)

\* mutant of Absorption: the price change of the window is not tested
AbsorptionAnyMove(ps, t, w, poc_key) ==
    LET \* PRICE_THRESHOLD = 0.25 points = 2 eighths
        absorbed(price_change, is_buying_absorbed, is_selling_absorbed, at, cvd_trend) ==
            IF ~(is_buying_absorbed \/ is_selling_absorbed) THEN None
            ELSE Some([ absorption_type |-> IF is_buying_absorbed THEN "buying"
                                            ELSE "selling",
                        price_key |-> RoundKeyRat(w.avg_price),
                        price_change |-> price_change,
                        abs_delta |-> Abs(w.delta),
                        at_key_level |-> at[1] \/ at[2] \/ at[3],
                        against_trend |->
                            \/ is_buying_absorbed /\ cvd_trend > TREND_THRESHOLD
                            \/ is_selling_absorbed /\ cvd_trend < -TREND_THRESHOLD ])
        moved(price_change) ==
            IF Abs(w.delta) < MinDeltaThreshold(ps.volume_history, t) THEN None
            ELSE absorbed(price_change,
                          w.delta > 0,
                          w.delta < 0,
                          IsAtKeyLevel(ps.volume_profile, poc_key, w.avg_price),
                          CvdTrend(ps))
    IN  IF ps.window_first_price = None \/ ps.window_last_price = None THEN None
        ELSE moved(Unwrap(ps.window_last_price) - Unwrap(ps.window_first_price))

\* the absorption test of process_buffer: None, or Some of the zone update
Absorption(ps, t, w, poc_key) ==
    LET \* PRICE_THRESHOLD = 0.25 points = 2 eighths
        absorbed(price_change, is_buying_absorbed, is_selling_absorbed, at, cvd_trend) ==
            IF ~(is_buying_absorbed \/ is_selling_absorbed) THEN None
            ELSE Some([ absorption_type |-> IF is_buying_absorbed THEN "buying"
                                            ELSE "selling",
                        price_key |-> RoundKeyRat(w.avg_price),
                        price_change |-> price_change,
                        abs_delta |-> Abs(w.delta),
                        at_key_level |-> at[1] \/ at[2] \/ at[3],
                        against_trend |->
                            \/ is_buying_absorbed /\ cvd_trend > TREND_THRESHOLD
                            \/ is_selling_absorbed /\ cvd_trend < -TREND_THRESHOLD ])
        moved(price_change) ==
            IF Abs(w.delta) < MinDeltaThreshold(ps.volume_history, t) THEN None
            ELSE absorbed(price_change,
                          w.delta > 0 /\ price_change <= 2,
                          w.delta < 0 /\ price_change >= -2,
                          IsAtKeyLevel(ps.volume_profile, poc_key, w.avg_price),
                          CvdTrend(ps))
    IN  IF ps.window_first_price = None \/ ps.window_last_price = None THEN None
        ELSE moved(Unwrap(ps.window_last_price) - Unwrap(ps.window_first_price))

\* mutant of UpdatePeak: the comparison inverted
UpdatePeakInverted(peak_strength, strength_num) ==
    IF strength_num < peak_strength THEN strength_num ELSE peak_strength

\* "Update peak strength if current is higher (never goes down)"
UpdatePeak(peak_strength, strength_num) ==
    IF strength_num > peak_strength THEN strength_num ELSE peak_strength

\* the zone entry().or_insert_with() and its update
ZoneUpdate(zones, a, t, avg_price) ==
    LET result(updated, strength_num) ==
            [ zones |-> [j \in DOMAIN zones \cup {a.price_key} |->
                            IF j = a.price_key THEN updated ELSE zones[j]],
              zone |-> updated,
              strength_num |-> strength_num ]
        peak(counted, strength_num) ==
            result([ counted EXCEPT !.peak_strength = UpdatePeak(@, strength_num) ],
                   strength_num)
        count(counted) ==
            peak(counted,
                 CalculateStrength(counted.event_count, a.at_key_level, a.against_trend))
        entry(zone) ==
            count([ zone EXCEPT
                      !.total_absorbed = @ + a.abs_delta,
                      !.event_count = @ + 1,
                      !.last_seen = t,
                      !.absorption_type = a.absorption_type ])
    IN  entry(IF a.price_key \in DOMAIN zones THEN zones[a.price_key]
              ELSE [ price |-> avg_price,
                     price_key |-> a.price_key,
                     absorption_type |-> a.absorption_type,
                     total_absorbed |-> 0,
                     event_count |-> 0,
                     first_seen |-> t,
                     last_seen |-> t,
                     peak_strength |-> 0 ])

\* mutant of DetectAbsorption: every zone update emits its event
DetectAbsorptionUngated(c, t, w, poc_key) ==
    LET absorption_event(a, u, strength) ==
            [ kind |-> "Absorption",
              timestamp |-> t,
              price |-> w.avg_price,
              absorption_type |-> a.absorption_type,
              delta |-> w.delta,
              price_change |-> a.price_change,
              strength |-> strength,
              event_count |-> u.zone.event_count,
              total_absorbed |-> u.zone.total_absorbed,
              at_key_level |-> a.at_key_level,
              against_trend |-> a.against_trend ]
        emit(a, u, strength, ps1) ==
            IF TRUE
            THEN RecordSignal([ ps |-> ps1,
                                tx |-> Send(c.tx, c.rx,
                                            absorption_event(a, u, strength)),
                                rx |-> c.rx ],
                              t, "absorption",
                              IF a.absorption_type = "buying" THEN "bearish"
                              ELSE "bullish",
                              w.avg_price)
            ELSE [ c EXCEPT !.ps = ps1 ]
        updated(a, u) ==
            emit(a, u, StrengthNumToStr(u.strength_num),
                 [ c.ps EXCEPT !.absorption_zones = u.zones ])
        absorbed(a) == updated(a, ZoneUpdate(c.ps.absorption_zones, a, t, w.avg_price))
        test(ab) == IF ab = None THEN c ELSE absorbed(Unwrap(ab))
    IN  test(Absorption(c.ps, t, w, poc_key))

\* the absorption detection of process_buffer, on a context c = [ps, tx]
DetectAbsorption(c, t, w, poc_key) ==
    LET absorption_event(a, u, strength) ==
            [ kind |-> "Absorption",
              timestamp |-> t,
              price |-> w.avg_price,
              absorption_type |-> a.absorption_type,
              delta |-> w.delta,
              price_change |-> a.price_change,
              strength |-> strength,
              event_count |-> u.zone.event_count,
              total_absorbed |-> u.zone.total_absorbed,
              at_key_level |-> a.at_key_level,
              against_trend |-> a.against_trend ]
        emit(a, u, strength, ps1) ==
            \* "Only emit events for medium+ strength OR first event at key level"
            IF strength # "weak" \/ (u.zone.event_count = 1 /\ a.at_key_level)
            THEN RecordSignal([ ps |-> ps1,
                                tx |-> Send(c.tx, c.rx,
                                            absorption_event(a, u, strength)),
                                rx |-> c.rx ],
                              t, "absorption",
                              IF a.absorption_type = "buying" THEN "bearish"
                              ELSE "bullish",
                              w.avg_price)
            ELSE [ c EXCEPT !.ps = ps1 ]
        updated(a, u) ==
            emit(a, u, StrengthNumToStr(u.strength_num),
                 [ c.ps EXCEPT !.absorption_zones = u.zones ])
        absorbed(a) == updated(a, ZoneUpdate(c.ps.absorption_zones, a, t, w.avg_price))
        test(ab) == IF ab = None THEN c ELSE absorbed(Unwrap(ab))
    IN  test(Absorption(c.ps, t, w, poc_key))

\* mutant of SendAbsorptionZones: every zone of the registry is listed
SendAbsorptionZonesAll(c, poc_key) ==
    LET zone(z, at, cvd_trend) ==
            [ price |-> z.price,
              absorption_type |-> z.absorption_type,
              total_absorbed |-> z.total_absorbed,
              event_count |-> z.event_count,
              first_seen |-> z.first_seen,
              last_seen |-> z.last_seen,
              strength |-> StrengthNumToStr(z.peak_strength),
              at_poc |-> at[1],
              at_vah |-> at[2],
              at_val |-> at[3],
              against_trend |->
                  \/ z.absorption_type = "buying" /\ cvd_trend > TREND_THRESHOLD
                  \/ z.absorption_type = "selling" /\ cvd_trend < -TREND_THRESHOLD ]
        out(z) == zone(z, IsAtKeyLevel(c.ps.volume_profile, poc_key, z.price),
                       CvdTrend(c.ps))
        send(active) ==
            IF active = {} THEN c
            ELSE [ c EXCEPT !.tx = Send(@, c.rx,
                                        [ kind |-> "AbsorptionZones",
                                          zones |-> { out(c.ps.absorption_zones[k]) :
                                                        k \in active } ]) ]
    IN  send({ k \in DOMAIN c.ps.absorption_zones :
                 c.ps.absorption_zones[k].event_count >= 1 })

\* the AbsorptionZones update sent at the end of process_buffer
SendAbsorptionZones(c, poc_key) ==
    LET zone(z, at, cvd_trend) ==
            [ price |-> z.price,
              absorption_type |-> z.absorption_type,
              total_absorbed |-> z.total_absorbed,
              event_count |-> z.event_count,
              first_seen |-> z.first_seen,
              last_seen |-> z.last_seen,
              strength |-> StrengthNumToStr(z.peak_strength),
              at_poc |-> at[1],
              at_vah |-> at[2],
              at_val |-> at[3],
              against_trend |->
                  \/ z.absorption_type = "buying" /\ cvd_trend > TREND_THRESHOLD
                  \/ z.absorption_type = "selling" /\ cvd_trend < -TREND_THRESHOLD ]
        out(z) == zone(z, IsAtKeyLevel(c.ps.volume_profile, poc_key, z.price),
                       CvdTrend(c.ps))
        send(active) ==
            IF active = {} THEN c
            ELSE [ c EXCEPT !.tx = Send(@, c.rx,
                                        [ kind |-> "AbsorptionZones",
                                          zones |-> { out(c.ps.absorption_zones[k]) :
                                                        k \in active } ]) ]
    IN  send({ k \in DOMAIN c.ps.absorption_zones :
                 c.ps.absorption_zones[k].event_count >= 2 })


\* mutant of Cleanup: the histories age by the event time of the last
\* buffered trade
CleanupAtEventTime(ps, t) ==
    LET refresh(cvd_history, te) ==
            [ ps EXCEPT
                !.absorption_zones = CleanupOldZones(@, te),
                !.volume_history = CleanupVolumeHistory(@, te),
                !.cvd_history = cvd_history,
                !.cvd_5s_ago = Cvd5sAgo(cvd_history, ps.cvd, te) ]
        at(te) == refresh(CleanupCvdHistory(ps.cvd_history, te), te)
    IN  at(ps.trade_buffer[Len(ps.trade_buffer)].timestamp)

\* mutant of Cleanup: the outcomes of past signals are updated with the rest
CleanupWithOutcomes(ps, t) ==
    LET refresh(cvd_history) ==
            [ ps EXCEPT
                !.absorption_zones = CleanupOldZones(@, t),
                !.volume_history = CleanupVolumeHistory(@, t),
                !.cvd_history = cvd_history,
                !.cvd_5s_ago = Cvd5sAgo(cvd_history, ps.cvd, t),
                !.signal_history = UpdateSignalOutcomes(@, t, ps.current_price) ]
    IN  refresh(CleanupCvdHistory(ps.cvd_history, t))

\* "Cleanup old data" at the head of process_buffer
Cleanup(ps, t) ==
    LET refresh(cvd_history) ==
            [ ps EXCEPT
                !.absorption_zones = CleanupOldZones(@, t),
                !.volume_history = CleanupVolumeHistory(@, t),
                !.cvd_history = cvd_history,
                !.cvd_5s_ago = Cvd5sAgo(cvd_history, ps.cvd, t) ]
    IN  refresh(CleanupCvdHistory(ps.cvd_history, t))

\* mutant of DetectSignals: absorption detected before stacked imbalances
DetectSignalsAbsorptionFirst(c, t, w, poc_key) ==
    LET rest(c3) ==
            [ c |-> DetectStackedImbalances(
                        SendAbsorptionZones(DetectAbsorption(c3, t, w, poc_key), poc_key),
                        t),
              ab |-> Absorption(c3.ps, t, w, poc_key),
              zones |-> c3.ps.absorption_zones ]
    IN  rest(DetectDeltaFlip(c, t, w.avg_price))

\* the detectors of process_buffer in the order it runs them, on a context
\* c = [ps, tx]: delta flip, stacked imbalances, absorption, zones update;
\* ab is the absorption test as the absorption detector saw it
DetectSignals(c, t, w, poc_key) ==
    LET rest(c4) ==
            [ c |-> SendAbsorptionZones(DetectAbsorption(c4, t, w, poc_key), poc_key),
              ab |-> Absorption(c4.ps, t, w, poc_key),
              zones |-> c4.ps.absorption_zones ]
    IN  rest(DetectStackedImbalances(DetectDeltaFlip(c, t, w.avg_price), t))

\* the body of process_buffer once the buffer is known to be non-empty:
\* the state, the messages sent, and what the tick computed
ProcessWindow(ps, t, poc_key, rx) ==
    LET bubble(w) ==
            [ kind |-> "Bubble",
              id |-> ps.bubble_counter,
              price |-> w.avg_price,
              size |-> w.dominant_volume,
              side |-> w.dominant_side,
              timestamp |-> t,
              is_significant_imbalance |-> 100 * Abs(w.delta) > 15 * w.total_volume ]
        cvd_point == [ kind |-> "CVDPoint", timestamp |-> t, value |-> ps.cvd ]
        \* "Reset window price tracking" and the buffer
        reset(d, w) ==
            [ ps |-> [ d.c.ps EXCEPT
                         !.window_first_price = None,
                         !.window_last_price = None,
                         !.trade_buffer = << >> ],
              tx |-> d.c.tx,
              window |-> ps.trade_buffer,
              strength |->
                  IF d.ab = None THEN None
                  ELSE Some([ key |-> Unwrap(d.ab).price_key,
                              num |-> ZoneUpdate(d.zones, Unwrap(d.ab),
                                                 t, w.avg_price).strength_num ]) ]
        detect(ps1, w) ==
            reset(DetectSignals(
                      [ ps |-> [ ps1 EXCEPT
                                   !.volume_history =
                                       Append(@, [ timestamp |-> t,
                                                   volume |-> w.total_volume,
                                                   delta |-> w.delta ]),
                                   !.cvd_history = Append(@, [ ts |-> t, cvd |-> ps.cvd ]),
                                   !.bubble_counter = @ + 1 ],
                        tx |-> Send(Send(<< >>, rx, bubble(w)), rx, cvd_point),
                        rx |-> rx ],
                      t, w, poc_key),
                  w)
        aggregate(ps1, w) ==
            IF w.total_volume = 0
            THEN [ ps |-> [ ps1 EXCEPT !.trade_buffer = << >> ],
                   tx |-> << >>,
                   window |-> ps.trade_buffer,
                   strength |-> None ]
            ELSE detect(ps1, w)
    IN  aggregate(Cleanup(ps, t), WindowOf(ps.trade_buffer))

\* mutant of ProcessBuffer: the cleanup runs before the empty-buffer check
ProcessBufferCleanupFirst(ps, t, poc_key, rx) ==
    IF ps.trade_buffer = << >>
    THEN [ ps |-> Cleanup(ps, t), tx |-> << >>, window |-> << >>,
           strength |-> None ]
    ELSE ProcessWindow(ps, t, poc_key, rx)

\* ProcessingState::process_buffer
ProcessBuffer(ps, t, poc_key, rx) ==
    IF ps.trade_buffer = << >>
    THEN [ ps |-> ps, tx |-> << >>, window |-> << >>, strength |-> None ]
    ELSE ProcessWindow(ps, t, poc_key, rx)

\* the message of ProcessingState::send_volume_profile
VolumeProfileMsg(ps) == [ kind |-> "VolumeProfile", levels |-> ps.volume_profile ]

\* the results get_poc can return on this profile (0 stands for None)
PocChoices(profile) == IF DOMAIN profile = {} THEN {0} ELSE PocKeys(profile)


\* ------------------------------------------------------------------ history
RECURSIVE SeqToBag(_)
SeqToBag(s) ==
    IF s = << >> THEN EmptyBag ELSE SetToBag({Head(s)}) (+) SeqToBag(Tail(s))

\* the times of the last two emissions of each signal kind after the messages
\* of msgs have been sent, in order
RECURSIVE NoteEmissions(_, _)
NoteEmissions(times, msgs) ==
    IF msgs = << >> THEN times
    ELSE LET m == Head(msgs)
             k == CASE m.kind = "DeltaFlip" -> "delta_flip"
                    [] m.kind = "StackedImbalance" -> "stacked_imbalance"
                    [] m.kind = "Confluence" -> "confluence"
                    [] OTHER -> "none"
         IN  NoteEmissions(
                 IF k = "none" THEN times
                 ELSE [ times EXCEPT ![k] = << @[2], m.timestamp >> ],
                 Tail(msgs))

\* the maximum strength computed so far for each zone of the registry zones,
\* after a tick at t that computed strength r (None or Some) from registry old
NoteStrength(old, zones, t, r) ==
    LET live == CleanupOldZones(old, t)
    IN  [ k \in DOMAIN zones |->
            IF r # None /\ Unwrap(r).key = k
            THEN IF k \in DOMAIN live THEN Max(zoneMax[k], Unwrap(r).num)
                 ELSE Unwrap(r).num
            ELSE zoneMax[k] ]

\* ------------------------------------------------------------------- inputs
\* trades of the general feed; prices in eighths of a point: 100.0, 100.125
\* (between two quarter-point buckets) and 100.5
GenTrades ==
    { [ price |-> 800, size |-> 20, side |-> "buy", timestamp |-> 0 ],
      [ price |-> 800, size |-> 50, side |-> "sell", timestamp |-> 0 ],
      [ price |-> 801, size |-> 50, side |-> "buy", timestamp |-> 0 ],
      [ price |-> 804, size |-> 20, side |-> "sell", timestamp |-> 0 ] }

\* the time from one round of the tick task to the next: the 1 s interval, or
\* 5 s when the task is delayed (the interval does not bound the delay)
GenSteps == {1000, 5000}

\* a recorded feed (replay mode): a sell and a larger buy at 100, buys at 101,
\* 102 and 103, then sells that turn the four levels over
StackFeed(i) ==
    LET level == CASE i <= 2 -> 0 [] i = 6 -> 0 [] OTHER -> (i - 2) % 4
    IN  [ price |-> 800 + 8 * level,
          size |-> CASE i = 1 -> 100 [] i = 2 -> 300 [] i <= 5 -> 100
                     [] i = 6 -> 1000 [] i <= 9 -> 300 [] OTHER -> 20,
          side |-> IF i \in 2..5 THEN "buy" ELSE "sell",
          timestamp |-> i ]

\* the time from one round of the tick task to the next while the recorded
\* feed plays: the 1 s interval, or 30 s over a pause of the feed
StackSteps == {1000, 30000}

\* trades of the feed of the lock-level specification; the adapter stamps
\* each trade with a distinct event time
LockTrades(i) ==
    { [ price |-> 800, size |-> 20, side |-> "buy", timestamp |-> i ],
      [ price |-> 804, size |-> 50, side |-> "sell", timestamp |-> i ] }

LockSteps == {1000}

\* a feed that turns the cvd over: a buy of 200, a sell of 500, a buy of 500,
\* all at 100.0
FlipFeed(i) ==
    [ price |-> 800,
      size |-> IF i = 1 THEN 200 ELSE 500,
      side |-> IF i = 2 THEN "sell" ELSE "buy",
      timestamp |-> i ]

FlipSteps == {1000, 5000}

\* trades as the pub fn add_trade accepts them, size 0 and a side that is
\* neither "buy" nor "sell" included (Trade.size is a u32, Trade.side a String)
BadTrades ==
    { [ price |-> 804, size |-> 0, side |-> "buy", timestamp |-> 0 ],
      [ price |-> 800, size |-> 10, side |-> "hold", timestamp |-> 0 ],
      [ price |-> 800, size |-> 20, side |-> "buy", timestamp |-> 0 ],
      [ price |-> 800, size |-> 50, side |-> "sell", timestamp |-> 0 ] }

BadSteps == {1000}

\* a feed that turns the cvd over with every trade after the first: a buy of
\* 200, then sells and buys of 500 in turn, all at 100.0
LongFeed(i) ==
    [ price |-> 800,
      size |-> IF i = 1 THEN 200 ELSE 500,
      side |-> IF i % 2 = 0 THEN "sell" ELSE "buy",
      timestamp |-> i ]

\* the time from one round of the tick task to the next over a long session:
\* the 1 s interval, or a delay of 30 min less a second, or of 30 min
LongSteps == {1000, 1799000, 1800000}

\* a feed of buys of 100 at 100.0, 101.0, 103.0 and 104.0, none at 102.0, and
\* then sells of 20 at 100.0
GapFeed(i) ==
    [ price |-> CASE i = 1 -> 800 [] i = 2 -> 808 [] i = 3 -> 824
                  [] i = 4 -> 832 [] OTHER -> 800,
      size |-> IF i <= 4 THEN 100 ELSE 20,
      side |-> IF i <= 4 THEN "buy" ELSE "sell",
      timestamp |-> i ]

GapSteps == {1000}

\* a feed that stacks buys of 100 at 100.0, 101.0, 102.0 and 103.0, adds a buy
\* of 20 at 100.0 and then turns the four levels over with sells of 300
TurnFeed(i) ==
    [ price |-> 800 + 8 * (IF i <= 4 THEN i - 1 ELSE IF i = 5 THEN 0 ELSE (i - 6) % 4),
      size |-> IF i <= 4 THEN 100 ELSE IF i = 5 THEN 20 ELSE 300,
      side |-> IF i <= 5 THEN "buy" ELSE "sell",
      timestamp |-> i ]

TurnSteps == {1000, 30000}

\* a feed at 100.0 whose signals agree twice: a buy of 200, a sell of 500, a
\* buy of 500 and a sell of 200
ConfFeed(i) ==
    [ price |-> 800,
      size |-> IF i \in {1, 4} THEN 200 ELSE 500,
      side |-> IF i \in {2, 4} THEN "sell" ELSE "buy",
      timestamp |-> i ]

ConfSteps == {1000, 5000}

\* a feed whose price moves by 2 points and by half a point between signals:
\* a buy of 200 at 100.0, a sell of 500 at 102.0, a buy of 500 at 104.0 and a
\* sell of 100 at 104.5
OutFeed(i) ==
    [ price |-> IF i = 1 THEN 800 ELSE IF i = 2 THEN 816
                ELSE IF i = 3 THEN 832 ELSE 836,
      size |-> IF i = 1 THEN 200 ELSE IF i = 4 THEN 100 ELSE 500,
      side |-> IF i \in {2, 4} THEN "sell" ELSE "buy",
      timestamp |-> i ]

OutSteps == {1000, 60000, 300000}

\* block trades: in the wide feed a size counts blocks of 2^30 contracts.
\* add_trade only adds sizes, so a run whose sizes are all multiples of 2^30
\* contracts is exactly its image in blocks, where u32::MAX + 1 = 2^32
\* contracts is U32_RANGE = 4 blocks.  Sizes of 2^30 and 3 * 2^30 contracts
\* are well-formed values of Trade.size.
WideTrades ==
    { [ price |-> 800, size |-> 1, side |-> "buy", timestamp |-> 0 ],
      [ price |-> 800, size |-> 1, side |-> "sell", timestamp |-> 0 ],
      [ price |-> 804, size |-> 3, side |-> "buy", timestamp |-> 0 ] }

\* ------------------------------------------------------------------ actions
Init ==
    /\ pstate = NewState
    /\ now = T0
    /\ tx = << >>
    /\ lock = "free"
    /\ pcTick = "sleep"
    /\ pcIngress = "recv"
    /\ inTrade = None
    /\ ingested = EmptyBag
    /\ aggregated = EmptyBag
    /\ lockMark = EmptyBag
    /\ emitTimes = [ k \in SignalKinds |-> << -1, -1 >> ]
    /\ zoneMax = << >>
    /\ nTicks = 0
    /\ lastOp = "new"

\* mutant of WriteLockAvailable: no mutual exclusion
LockAlwaysAvailable(l) == TRUE

\* tokio's RwLock::write().await completes only when no guard is held
WriteLockAvailable(l) == l = "free"

\* what add_trade does to the state and its history
AddTradeEffect(trade) ==
    /\ pstate' = AddTradeState(pstate, trade)
    /\ ingested' = ingested (+) SetToBag({trade})
    /\ tx' = << >>
    /\ UNCHANGED << now, aggregated, emitTimes, zoneMax >>

\* what process_buffer at time t, followed by send if asked, does to the state
\* and its history
ProcessBufferEffect(t, send) ==
    \E poc_key \in PocChoices(pstate.volume_profile), rx \in Subscribers :
        \E r \in { ProcessBuffer(pstate, t, poc_key, rx) } :
            /\ pstate' = r.ps
            /\ tx' = IF send THEN Send(r.tx, rx, VolumeProfileMsg(r.ps)) ELSE r.tx
            /\ aggregated' = aggregated (+) SeqToBag(r.window)
            /\ emitTimes' = NoteEmissions(emitTimes, r.tx)
            /\ zoneMax' = NoteStrength(pstate.absorption_zones,
                                       r.ps.absorption_zones, t, r.strength)

\* the ingress task of a stream adapter handles one trade: take the lock,
\* add_trade, drop the guard
AddTrade(trades, maxTrades) ==
    \E trade \in trades :
        /\ BagCardinality(ingested) < maxTrades
        /\ WriteLockAvailable(lock)
        /\ AddTradeEffect(trade)
        /\ lastOp' = "add_trade"
        /\ UNCHANGED << lock, pcTick, pcIngress, inTrade, lockMark, nTicks >>

\* one round of the tick task of a stream adapter: wait for the interval, take
\* the lock, process_buffer, send_volume_profile, drop the guard
Tick(steps, maxTime, maxTicks) ==
    \E dt \in steps :
        /\ now + dt <= T0 + maxTime
        /\ nTicks < maxTicks
        /\ nTicks' = nTicks + 1
        /\ WriteLockAvailable(lock)
        /\ now' = now + dt
        /\ ProcessBufferEffect(now + dt, TRUE)
        /\ lockMark' = ingested
        /\ lastOp' = "tick"
        /\ UNCHANGED << lock, pcTick, pcIngress, inTrade, ingested >>

Next ==
    \/ AddTrade(GenTrades, MaxTrades)
    \/ Tick(GenSteps, MaxTime, MaxTicks)

Spec == Init /\ [][Next]_vars

\* the recorded feed, ticked at any pace
FeedNext == { StackFeed(BagCardinality(ingested) + 1) }

NextStack ==
    \/ AddTrade(FeedNext, MaxStackTrades)
    \/ Tick(StackSteps, MaxStackTime, MaxStackTicks)

SpecStack == Init /\ [][NextStack]_vars

\* ------------------------------------------- the two tasks, guard by guard
\* ingress task: processing_state.write().await with the next trade in hand
IngressLock ==
    \E trade \in LockTrades(BagCardinality(ingested) + 1) :
        /\ pcIngress = "recv"
        /\ BagCardinality(ingested) < MaxLockTrades
        /\ WriteLockAvailable(lock)
        /\ lock' = "ingress"
        /\ inTrade' = Some(trade)
        /\ pcIngress' = "locked"
        /\ lastOp' = "ingress_lock"
        /\ UNCHANGED << pstate, now, tx, pcTick, ingested, aggregated, lockMark,
                        emitTimes, zoneMax, nTicks >>

\* ingress task: pstate.add_trade(trade_msg); the guard drops at the end of
\* the block
IngressAdd ==
    /\ pcIngress = "locked"
    /\ AddTradeEffect(Unwrap(inTrade))
    /\ lock' = IF lock = "ingress" THEN "free" ELSE lock
    /\ inTrade' = None
    /\ pcIngress' = "recv"
    /\ lastOp' = "add_trade"
    /\ UNCHANGED << pcTick, lockMark, nTicks >>

\* tick task: interval.tick().await, then processing_state.write().await
TickLock ==
    \E dt \in LockSteps :
        /\ pcTick = "sleep"
        /\ now + dt <= T0 + MaxLockTime
        /\ WriteLockAvailable(lock)
        /\ now' = now + dt
        /\ lock' = "tick"
        /\ lockMark' = ingested
        /\ pcTick' = "locked"
        /\ nTicks' = nTicks + 1
        /\ tx' = << >>
        /\ lastOp' = "tick_lock"
        /\ UNCHANGED << pstate, pcIngress, inTrade, ingested, aggregated,
                        emitTimes, zoneMax >>

\* tick task: pstate.process_buffer(&tx), the guard still held
TickProcess ==
    /\ pcTick = "locked"
    /\ ProcessBufferEffect(now, FALSE)
    /\ pcTick' = "processed"
    /\ lastOp' = "process_buffer"
    /\ UNCHANGED << now, lock, pcIngress, inTrade, ingested, lockMark, nTicks >>

\* tick task: pstate.send_volume_profile(&tx); the guard drops at the end of
\* the loop body
TickSend ==
    /\ pcTick = "processed"
    /\ \E rx \in Subscribers : tx' = Send(tx, rx, VolumeProfileMsg(pstate))
    /\ lock' = IF lock = "tick" THEN "free" ELSE lock
    /\ pcTick' = "sleep"
    /\ lastOp' = "tick"
    /\ UNCHANGED << pstate, now, pcIngress, inTrade, ingested, aggregated,
                    lockMark, emitTimes, zoneMax, nTicks >>

NextLock ==
    \/ IngressLock
    \/ IngressAdd
    \/ TickLock
    \/ TickProcess
    \/ TickSend

SpecLock == Init /\ [][NextLock]_vars

\* ingress task: client.next_record() yields None, "Databento stream ended",
\* and run_databento_stream returns; the tick task it spawned is neither
\* told nor aborted
IngressEnd ==
    /\ pcIngress = "recv"
    /\ pcIngress' = "ended"
    /\ lastOp' = "stream_end"
    /\ UNCHANGED << pstate, now, tx, lock, pcTick, inTrade, ingested, aggregated,
                    lockMark, emitTimes, zoneMax, nTicks >>

\* the two tasks of a stream that may end
NextEnd ==
    \/ NextLock
    \/ IngressEnd

SpecEnd == Init /\ [][NextEnd]_vars

\* the cvd-turning feed, ticked at any pace
FlipNext == { FlipFeed(BagCardinality(ingested) + 1) }

NextFlip ==
    \/ AddTrade(FlipNext, MaxFlipTrades)
    \/ Tick(FlipSteps, MaxFlipTime, MaxFlipTicks)

SpecFlip == Init /\ [][NextFlip]_vars

\* any Trade value, ticked every second
NextBad ==
    \/ AddTrade(BadTrades, MaxBadTrades)
    \/ Tick(BadSteps, MaxBadTime, MaxBadTicks)

SpecBad == Init /\ [][NextBad]_vars

\* the cvd-turning feed over a session of half an hour
LongNext == { LongFeed(BagCardinality(ingested) + 1) }

NextLong ==
    \/ AddTrade(LongNext, MaxLongTrades)
    \/ Tick(LongSteps, MaxLongTime, MaxLongTicks)

SpecLong == Init /\ [][NextLong]_vars

\* the feed with a gap in its prices, ticked every second
GapNext == { GapFeed(BagCardinality(ingested) + 1) }

NextGap ==
    \/ AddTrade(GapNext, MaxGapTrades)
    \/ Tick(GapSteps, MaxGapTime, MaxGapTicks)

SpecGap == Init /\ [][NextGap]_vars

\* the turning feed, ticked every second or after a pause of 30 s
TurnNext == { TurnFeed(BagCardinality(ingested) + 1) }

NextTurn ==
    \/ AddTrade(TurnNext, MaxTurnTrades)
    \/ Tick(TurnSteps, MaxTurnTime, MaxTurnTicks)

SpecTurn == Init /\ [][NextTurn]_vars

\* the agreeing feed, ticked every second or after a pause of 5 s
ConfNext == { ConfFeed(BagCardinality(ingested) + 1) }

NextConf ==
    \/ AddTrade(ConfNext, MaxConfTrades)
    \/ Tick(ConfSteps, MaxConfTime, MaxConfTicks)

SpecConf == Init /\ [][NextConf]_vars

\* the moving feed, ticked every second or after a pause of 1 min or 5 min
OutNext == { OutFeed(BagCardinality(ingested) + 1) }

NextOut ==
    \/ AddTrade(OutNext, MaxOutTrades)
    \/ Tick(OutSteps, MaxOutTime, MaxOutTicks)

SpecOut == Init /\ [][NextOut]_vars

\* ------------------------------------------------- the 32-bit bucket sums
\* add_trade with the u32 fields of a VolumeProfileLevel at their width, on
\* sizes in blocks: the outcomes the build can produce.  Without an overflow
\* the one outcome is AddTradeState.  When `level.total_volume += trade.size`
\* (or the side's `+=` before it) passes u32::MAX, a build without overflow
\* checks wraps the sums and goes on, and a build with them panics at that
\* statement: cvd, session totals and window prices are written, the side's
\* volume is written unless its own sum overflowed, the bucket's total and
\* the buffer are not.
AddTradeU32(ps, trade) ==
    LET price_key == RoundKey(trade.price)
        wrapped(exact) ==
            [ exact EXCEPT
                !.volume_profile[price_key] =
                    [ @ EXCEPT !.buy_volume = @ % U32_RANGE,
                               !.sell_volume = @ % U32_RANGE,
                               !.total_volume = @ % U32_RANGE ] ]
        atPanic(exact, level) ==
            [ exact EXCEPT
                !.trade_buffer = ps.trade_buffer,
                !.volume_profile =
                    IF level.buy_volume >= U32_RANGE \/ level.sell_volume >= U32_RANGE
                    THEN ps.volume_profile
                    ELSE [ @ EXCEPT ![price_key].total_volume =
                                        ps.volume_profile[price_key].total_volume ] ]
        outcomes(exact, level) ==
            IF level.total_volume < U32_RANGE
            THEN { [ ps |-> exact, panicked |-> FALSE ] }
            ELSE { [ ps |-> wrapped(exact), panicked |-> FALSE ],
                   [ ps |-> atPanic(exact, level), panicked |-> TRUE ] }
        add(exact) == outcomes(exact, exact.volume_profile[price_key])
    IN  add(AddTradeState(ps, trade))

\* the ingress task handles one block trade; a panic ends the task
AddTradeWide ==
    \E trade \in WideTrades :
        /\ BagCardinality(ingested) < MaxWideTrades
        /\ lastOp # "panic"
        /\ WriteLockAvailable(lock)
        /\ \E r \in AddTradeU32(pstate, trade) :
               /\ pstate' = r.ps
               /\ lastOp' = IF r.panicked THEN "panic" ELSE "add_trade"
        /\ ingested' = ingested (+) SetToBag({trade})
        /\ tx' = << >>
        /\ UNCHANGED << now, aggregated, emitTimes, zoneMax, lock, pcTick,
                        pcIngress, inTrade, lockMark, nTicks >>

\* ingests of block trades between two ticks
NextWide == AddTradeWide

SpecWide == Init /\ [][NextWide]_vars

\* =============================================================== properties
TxKinds == { tx[i].kind : i \in 1..Len(tx) }

\* the last step was a round of the tick task that found trades in the buffer
NonEmptyTick == lastOp = "tick" /\ Len(tx) > 0 /\ tx[1].kind = "Bubble"

\* the sum over a bag of trades of +size for a buy and -size for a sell
SignedSum(bag) ==
    SetSum(BagToSet(bag),
           [ tr \in BagToSet(bag) |->
               CopiesIn(tr, bag) * (IF tr.side = "buy" THEN tr.size ELSE -tr.size) ])

\* round(price * 4) for a price of p eighths: the nearest key, the upper one
\* when p lies half-way
NearestKey(p) ==
    CHOOSE k \in { p \div 2, p \div 2 + 1 } :
        Abs(2 * k - p) <= 1 /\ Abs(2 * (k + 1) - p) > 1

\* the volume of side sd that the trades of a bag put at bucket k
VolumeAt(bag, k, sd) ==
    LET at == { tr \in BagToSet(bag) : NearestKey(tr.price) = k /\ tr.side = sd }
    IN  SetSum(at, [ tr \in at |-> CopiesIn(tr, bag) * tr.size ])

\* the volume profile that the trades of a bag make
ProfileOfBag(bag) ==
    LET keys == { NearestKey(tr.price) : tr \in BagToSet(bag) }
    IN  [ k \in keys |->
            [ price |-> 2 * k,
              buy_volume |-> VolumeAt(bag, k, "buy"),
              sell_volume |-> VolumeAt(bag, k, "sell"),
              total_volume |-> VolumeAt(bag, k, "buy") + VolumeAt(bag, k, "sell") ] ]

\* C1: after every add_trade and every tick the running cvd is the signed sum
\* of all trades ever ingested; a tick does not change cvd, and the CVDPoint a
\* tick sends carries that value.
C1_CvdIsSignedSum ==
    /\ [](/\ pstate.cvd = SignedSum(ingested)
          /\ \A i \in 1..Len(tx) :
                tx[i].kind = "CVDPoint" => tx[i].value = SignedSum(ingested))
    /\ [][lastOp' = "tick" => pstate'.cvd = pstate.cvd]_vars

C1_Witness ==
    /\ NonEmptyTick
    /\ "CVDPoint" \in TxKinds
    /\ pstate.cvd < 0
    /\ \E a, b \in BagToSet(ingested) : a.side = "buy" /\ b.side = "sell"

\* C2: with the ingress task and the tick task under the same write lock,
\* every ingested trade is either still buffered or was summed into exactly one
\* tick's window, and the VolumeProfile that ends a tick holds exactly the
\* trades ingested before the tick took the lock.
C2_LockSerializesTick ==
    /\ \A tr \in BagToSet(ingested) :
          CopiesIn(tr, aggregated) + CopiesIn(tr, SeqToBag(pstate.trade_buffer)) = 1
    /\ lastOp = "tick" =>
          /\ tx[Len(tx)].kind = "VolumeProfile"
          /\ tx[Len(tx)].levels = ProfileOfBag(lockMark)

C2_Witness ==
    /\ lastOp = "tick"
    /\ nTicks >= 2
    /\ BagCardinality(lockMark) = MaxLockTrades
    /\ BagCardinality(aggregated) >= 2
    /\ Cardinality(DOMAIN tx[Len(tx)].levels) = 2

\* C3 as stated: within one tick the messages follow the order Bubble,
\* CVDPoint, DeltaFlip, Absorption, AbsorptionZones, StackedImbalance,
\* VolumeProfile, Confluence, SessionStats.
StatedRank(kind) ==
    CASE kind = "Bubble" -> 1
      [] kind = "CVDPoint" -> 2
      [] kind = "DeltaFlip" -> 3
      [] kind = "Absorption" -> 4
      [] kind = "AbsorptionZones" -> 5
      [] kind = "StackedImbalance" -> 6
      [] kind = "VolumeProfile" -> 7
      [] kind = "Confluence" -> 8
      [] kind = "SessionStats" -> 9

C3_StatedOrder ==
    lastOp = "tick" =>
        \A i, j \in 1..Len(tx) :
            i < j => StatedRank(tx[i].kind) <= StatedRank(tx[j].kind)

\* C3 as amended: within one tick the messages other than Confluence and
\* SessionStats follow the order Bubble, CVDPoint, DeltaFlip, StackedImbalance,
\* Absorption, AbsorptionZones, VolumeProfile, each at most once and the
\* VolumeProfile last; a Confluence comes directly after the DeltaFlip,
\* StackedImbalance or Absorption whose recording raised it, and a SessionStats
\* directly after such a signal or its Confluence.
SentRank(kind) ==
    CASE kind = "Bubble" -> 1
      [] kind = "CVDPoint" -> 2
      [] kind = "DeltaFlip" -> 3
      [] kind = "StackedImbalance" -> 4
      [] kind = "Absorption" -> 5
      [] kind = "AbsorptionZones" -> 6
      [] kind = "VolumeProfile" -> 7

SignalMsgs == {"DeltaFlip", "StackedImbalance", "Absorption"}

C3_SentOrder ==
    lastOp = "tick" =>
        LET core == SelectSeq(tx, LAMBDA m : m.kind \notin {"Confluence", "SessionStats"})
        IN  /\ \A i, j \in 1..Len(core) :
                  i < j => SentRank(core[i].kind) < SentRank(core[j].kind)
            /\ tx[Len(tx)].kind = "VolumeProfile"
            /\ \A i \in 1..Len(tx) :
                  /\ tx[i].kind = "Confluence" =>
                        i > 1 /\ tx[i - 1].kind \in SignalMsgs
                  /\ tx[i].kind = "SessionStats" =>
                        i > 1 /\ tx[i - 1].kind \in SignalMsgs \cup {"Confluence"}

C3_Witness ==
    /\ lastOp = "tick"
    /\ {"DeltaFlip", "StackedImbalance", "Absorption", "Confluence",
        "SessionStats"} \subseteq TxKinds

\* C4: any two emissions of the same kind are at least that kind's cooldown
\* apart on the engine clock: 2000 ms for DeltaFlip, 30000 ms for
\* StackedImbalance, 10000 ms for Confluence.
StatedCooldown(k) ==
    CASE k = "delta_flip" -> 2000
      [] k = "stacked_imbalance" -> 30000
      [] k = "confluence" -> 10000

C4_Cooldowns ==
    \A k \in SignalKinds :
        emitTimes[k][1] >= 0 => emitTimes[k][2] - emitTimes[k][1] >= StatedCooldown(k)

C4_Witness == \A k \in SignalKinds : emitTimes[k][1] >= 0

\* C5: a tick that finds the buffer empty leaves the engine state as it was and
\* sends nothing from process_buffer (the tick task then sends the unchanged
\* volume profile).
C5_EmptyTickIsNoOp ==
    [][ (lastOp' = "tick" /\ pstate.trade_buffer = << >>) =>
            /\ pstate' = pstate
            /\ tx' = << VolumeProfileMsg(pstate) >>
            /\ emitTimes' = emitTimes ]_vars

C5_Witness ==
    /\ lastOp = "tick"
    /\ Len(tx) = 1
    /\ pstate.cvd_history # << >>
    /\ pstate.cvd_5s_ago #
          Cvd5sAgo(CleanupCvdHistory(pstate.cvd_history, now), pstate.cvd, now)

\* C6: every bucket of the volume profile has total = buy + sell with both
\* non-negative, sits at price key/4, and holds exactly the trades whose
\* round(price * 4) is its key; a tick does not modify the profile.
C6_ProfileBuckets ==
    /\ [](LET vp == pstate.volume_profile
          IN  /\ \A k \in DOMAIN vp :
                    /\ vp[k].total_volume = vp[k].buy_volume + vp[k].sell_volume
                    /\ vp[k].buy_volume >= 0
                    /\ vp[k].sell_volume >= 0
                    /\ 4 * vp[k].price = 8 * k
              /\ vp = ProfileOfBag(ingested))
    /\ [][lastOp' = "tick" => pstate'.volume_profile = pstate.volume_profile]_vars

C6_Witness ==
    /\ lastOp = "tick"
    /\ \E k \in DOMAIN pstate.volume_profile :
          /\ pstate.volume_profile[k].buy_volume > 0
          /\ pstate.volume_profile[k].sell_volume > 0
    /\ \E tr \in BagToSet(ingested) : tr.price % 2 = 1

\* C7: for every non-empty profile, get_value_area gives VAH >= POC >= VAL and
\* the buckets from VAL to VAH hold at least 70 % of the total volume or else
\* every bucket with volume lies between them.
C7_ValueAreaCovers ==
    LET vp == pstate.volume_profile
        total == SetSum(DOMAIN vp, [k \in DOMAIN vp |-> vp[k].total_volume])
    IN  \A poc \in PocKeys(vp) :
            LET va == Unwrap(ValueAreaKeys(vp, poc))
                inside == { k \in DOMAIN vp : va[2] <= k /\ k <= va[1] }
                held == SetSum(inside, [k \in inside |-> vp[k].total_volume])
            IN  /\ va[1] >= poc
                /\ poc >= va[2]
                /\ \/ 10 * held >= 7 * total
                   \/ \A k \in DOMAIN vp : vp[k].total_volume > 0 => k \in inside

\* C8: every zone of the registry has event_count >= 1 and last_seen >=
\* first_seen, its peak_strength is the maximum of the strengths computed for
\* it so far, and from one step to the next the peak_strength of a zone that
\* stays in the registry does not decrease.
C8_ZonePeak ==
    /\ [](\A k \in DOMAIN pstate.absorption_zones :
            LET z == pstate.absorption_zones[k]
            IN  /\ z.event_count >= 1
                /\ z.last_seen >= z.first_seen
                /\ k \in DOMAIN zoneMax
                /\ z.peak_strength = zoneMax[k])
    /\ [][ \A k \in DOMAIN pstate.absorption_zones \cap DOMAIN pstate'.absorption_zones :
              pstate'.absorption_zones[k].first_seen = pstate.absorption_zones[k].first_seen
              => pstate'.absorption_zones[k].peak_strength
                    >= pstate.absorption_zones[k].peak_strength ]_vars

C8_Witness ==
    \E k \in DOMAIN pstate.absorption_zones :
        LET z == pstate.absorption_zones[k]
        IN  z.event_count >= 2 /\ z.peak_strength >= 2 /\ z.last_seen > z.first_seen

\* the cvd of the most recent entry of the history with ts <= t - 5000, or cvd
\* if there is none
MostRecentBefore(history, cvd, t) ==
    LET old == { i \in 1..Len(history) : history[i].ts <= t - 5000 }
    IN  IF old = {} THEN cvd
        ELSE history[CHOOSE i \in old :
                        \A j \in old :
                            \/ history[j].ts < history[i].ts
                            \/ history[j].ts = history[i].ts /\ j <= i].cvd

\* C9 as stated: after every ingest and every tick, cvd_5s_ago is the cvd of
\* the most recent history entry with ts <= now - 5000, or the current cvd.
C9_StatedEveryStep ==
    pstate.cvd_5s_ago = MostRecentBefore(pstate.cvd_history, pstate.cvd, now)

\* C9 as amended: after every tick that finds trades in the buffer, at that
\* tick's engine time now, cvd_5s_ago is the cvd of the most recent history
\* entry with ts <= now - 5000, or the current cvd if there is none.
C9_AfterNonEmptyTick ==
    NonEmptyTick =>
        pstate.cvd_5s_ago = MostRecentBefore(pstate.cvd_history, pstate.cvd, now)

C9_Witness ==
    /\ NonEmptyTick
    /\ \E i, j \in 1..Len(pstate.cvd_history) :
          /\ i < j
          /\ pstate.cvd_history[j].ts <= now - 5000
          /\ pstate.cvd_history[i].cvd # pstate.cvd_history[j].cvd
    /\ pstate.cvd_5s_ago # pstate.cvd

\* the last step was the first tick of the engine that found trades
FirstNonEmptyTick == NonEmptyTick /\ tx[1].id = 0

\* C10 as stated: after the first tick that finds trades, cvd_5s_ago is 0 and
\* no DeltaFlip was sent.
C10_StatedFirstTick ==
    FirstNonEmptyTick => pstate.cvd_5s_ago = 0 /\ "DeltaFlip" \notin TxKinds

\* C10 as amended: after the first tick that finds trades, cvd_5s_ago is the
\* running cvd (the signed sum of the trades of that first window), and no
\* DeltaFlip was sent.
C10_FirstTick ==
    FirstNonEmptyTick =>
        /\ pstate.cvd_5s_ago = pstate.cvd
        /\ pstate.cvd_5s_ago = SignedSum(aggregated)
        /\ "DeltaFlip" \notin TxKinds

C10_Witness ==
    /\ FirstNonEmptyTick
    /\ BagCardinality(aggregated) >= 2
    /\ pstate.cvd_5s_ago # 0


\* the messages of one kind sent by the last tick
MsgsOf(kind) == SelectSeq(tx, LAMBDA m : m.kind = kind)

\* the last step was a tick that took the cvd from +200, where the tick
\* before it had left it, to -300
FlipFrom200 ==
    /\ NonEmptyTick
    /\ pstate.cvd = -300
    /\ Len(pstate.cvd_history) >= 2
    /\ pstate.cvd_history[Len(pstate.cvd_history) - 1].cvd = 200

\* C11: when the cvd stands at +200 after prior ticks and a sell of 500 is
\* ingested and ticked with the flip cooldown elapsed, the tick emits a
\* DeltaFlip with direction bearish, cvd_after < 0 and cvd_before = +200,
\* however long ago the prior ticks happened
C11_FlipReportsPlus200 ==
    FlipFrom200 =>
        /\ Len(MsgsOf("DeltaFlip")) = 1
        /\ MsgsOf("DeltaFlip")[1].direction = "bearish"
        /\ MsgsOf("DeltaFlip")[1].cvd_after < 0
        /\ MsgsOf("DeltaFlip")[1].cvd_before = 200


\* what the claim C12 says of one step: a tick that finds trades emits one
\* Bubble, named after the counter, and one CVDPoint, and advances the
\* counter by one; a tick that finds none emits neither; nothing else moves
\* the counter
OneBubblePerNonEmptyTick ==
    IF lastOp' = "tick"
    THEN IF pstate.trade_buffer # << >>
         THEN /\ Len(MsgsOf("Bubble")') = 1
              /\ Len(MsgsOf("CVDPoint")') = 1
              /\ MsgsOf("Bubble")'[1].id = pstate.bubble_counter
              /\ pstate'.bubble_counter = pstate.bubble_counter + 1
         ELSE /\ MsgsOf("Bubble")' = << >>
              /\ MsgsOf("CVDPoint")' = << >>
              /\ pstate'.bubble_counter = pstate.bubble_counter
    ELSE pstate'.bubble_counter = pstate.bubble_counter

\* C12: every tick that finds a non-empty buffer emits exactly one Bubble and
\* exactly one CVDPoint; bubble ids are pairwise distinct, the counter rising
\* by one per bubble; a tick on an empty buffer emits neither
C12_OneBubblePerNonEmptyTick == [][OneBubblePerNonEmptyTick]_vars


\* the volume one side contributes to a buffer of well-formed trades
RECURSIVE SideVolume(_, _)
SideVolume(buffer, side) ==
    IF buffer = << >> THEN 0
    ELSE (IF Head(buffer).side = side THEN Head(buffer).size ELSE 0)
         + SideVolume(Tail(buffer), side)

\* the Bubble of a tick names the buy side exactly when the buys of the
\* window outweigh the sells, and carries the volume of the side it names
BubbleNamesHeavierSide ==
    lastOp' = "tick" /\ pstate.trade_buffer # << >> =>
        /\ MsgsOf("Bubble")' # << >>
        /\ MsgsOf("Bubble")'[1].side \in {"buy", "sell"}
        /\ MsgsOf("Bubble")'[1].side = "buy" <=>
               SideVolume(pstate.trade_buffer, "buy")
                   > SideVolume(pstate.trade_buffer, "sell")
        /\ MsgsOf("Bubble")'[1].size =
               SideVolume(pstate.trade_buffer, MsgsOf("Bubble")'[1].side)

\* C13: the Bubble's side is buy exactly when the window's buy volume
\* exceeds its sell volume; on a tie the side is sell and the size the total
\* sell volume; the size is always the volume of the reported side
C13_BubbleSide == [][BubbleNamesHeavierSide]_vars

\* a tick on a window whose two sides tie at 50 has sent a sell Bubble of 50
C13_Witness ==
    /\ NonEmptyTick
    /\ pstate.volume_history[Len(pstate.volume_history)].delta = 0
    /\ pstate.volume_history[Len(pstate.volume_history)].timestamp = now
    /\ tx[1].side = "sell"
    /\ tx[1].size = 50


\* the state and the messages a tick leaves are those process_buffer and
\* send_volume_profile produce under every kind of subscriber
SubscriberBlind ==
    lastOp' = "tick" =>
        \E poc_key \in PocChoices(pstate.volume_profile) :
            \A rx \in Subscribers :
                /\ ProcessBuffer(pstate, now', poc_key, rx).ps = pstate'
                /\ Send(ProcessBuffer(pstate, now', poc_key, rx).tx, rx,
                        VolumeProfileMsg(pstate')) = tx'

\* C14: the engine's state and the sequence of artifacts it sends do not
\* depend on the subscribers of the channel (none, prompt or lagging): the
\* result of a send is never read and a failed send changes no state
C14_SubscriberIndependence == [][SubscriberBlind]_vars

\* a tick has sent a DeltaFlip and a SessionStats and stamped the state after
\* each of the two sends
C14_Witness ==
    /\ NonEmptyTick
    /\ {"DeltaFlip", "SessionStats"} \subseteq TxKinds
    /\ pstate.last_delta_flip_time = now
    /\ pstate.last_stats_broadcast = now

\* event times a feed may stamp on a trade: zero, a small one, and one past
\* the engine clock of every run
EventTimes == {0, 7, T0 + 100000}

\* the buffer with the event time of its i-th trade replaced by f[i]
Restamped(buffer, f) ==
    [ i \in 1..Len(buffer) |-> [ buffer[i] EXCEPT !.timestamp = f[i] ] ]

\* the state with the event times of the buffered trades blanked
Unstamped(ps) ==
    [ ps EXCEPT !.trade_buffer =
                    Restamped(@, [ i \in 1..Len(@) |-> 0 ]) ]

\* a tick leaves the same state and sends the same messages whatever event
\* times the buffered trades carry, in whatever order; an ingest leaves the
\* same state, the buffered copy of the trade aside, whatever event time the
\* trade carries
EventTimeBlind ==
    /\ lastOp' = "tick" =>
           \E poc_key \in PocChoices(pstate.volume_profile) :
               \A f \in [ 1..Len(pstate.trade_buffer) -> EventTimes ] :
                   \E r \in { ProcessBuffer(
                                  [ pstate EXCEPT !.trade_buffer = Restamped(@, f) ],
                                  now', poc_key, "prompt") } :
                       /\ r.ps = pstate'
                       /\ Send(r.tx, "prompt", VolumeProfileMsg(r.ps)) = tx'
    /\ lastOp' = "add_trade" =>
           \A te \in EventTimes :
               Unstamped(AddTradeState(
                   pstate,
                   [ pstate'.trade_buffer[Len(pstate'.trade_buffer)]
                       EXCEPT !.timestamp = te ])) = Unstamped(pstate')

\* C15: two runs that ingest the same trades at the same engine instants and
\* tick at the same instants reach the same state and send the same artifacts
\* whatever Trade.timestamp values the trades carry, non-monotonic ones
\* included: add_trade and process_buffer never read Trade.timestamp
C15_EventTimeIndependence == [][EventTimeBlind]_vars

\* a tick with an earlier tick in the cvd history has aggregated a window of
\* two trades
C15_Witness ==
    /\ NonEmptyTick
    /\ BagCardinality(aggregated) = 3
    /\ Len(pstate.cvd_history) = 2
    /\ pstate.cvd_history[1].cvd = 200

\* a trade the engine is to drop: no size, or a side that is neither buy nor
\* sell
Malformed(trade) == trade.size = 0 \/ trade.side \notin {"buy", "sell"}

\* an ingest of a malformed trade leaves the cvd, the session totals, the
\* volume profile, the window's first and last price and the buffer as they
\* were
MalformedDropped ==
    \A trade \in BadTrades :
        /\ lastOp' = "add_trade"
        /\ ingested' = ingested (+) SetToBag({trade})
        /\ Malformed(trade)
        => /\ pstate'.cvd = pstate.cvd
           /\ pstate'.total_buy_volume = pstate.total_buy_volume
           /\ pstate'.total_sell_volume = pstate.total_sell_volume
           /\ pstate'.volume_profile = pstate.volume_profile
           /\ pstate'.window_first_price = pstate.window_first_price
           /\ pstate'.window_last_price = pstate.window_last_price
           /\ pstate'.trade_buffer = pstate.trade_buffer

\* C16: a malformed trade (size 0, or a side other than buy and sell) is
\* dropped: cvd, session totals, volume profile, window first and last price
\* and the trade buffer are unchanged by it, and no later tick is affected
C16_MalformedDropped == [][MalformedDropped]_vars

\* C17: for every sequence of ingests of well-formed trades (size >= 1, side
\* buy or sell) and ticks, add_trade and process_buffer complete without
\* failing: no division by zero, no unwrap of an absent value and no overflow
\* of the 32-bit per-window and per-bucket volume sums
C17_NeverFails ==
    /\ lastOp # "panic"
    /\ \A tr \in BagToSet(ingested) : tr.size >= 1 /\ tr.side \in {"buy", "sell"}
    /\ pstate.volume_profile = ProfileOfBag(ingested)

\* ingress has ended and a round of the tick task that began after the end
\* has since completed and left the buffer empty
DrainedAfterEnd ==
    /\ pcIngress = "ended"
    /\ lastOp = "tick"
    /\ pstate.trade_buffer = << >>
    /\ BagCardinality(aggregated) = BagCardinality(ingested)

\* once the buffer is drained after the end of ingress the tick task takes no
\* further step and nothing more is sent
TickLoopStops ==
    DrainedAfterEnd => pcTick' = pcTick /\ tx' = tx /\ nTicks' = nTicks

\* C18: when ingress ends, the trades still in the buffer are processed by
\* exactly one further tick, after which the tick loop terminates and no
\* further artifact is emitted
C18_DrainThenStop == [][TickLoopStops]_vars

\* a tick that runs 5000 ms or more after the last SessionStats sends one, and
\* a tick sends one only then
StatsEveryFiveSeconds ==
    lastOp' = "tick" =>
        /\ now' - pstate.last_stats_broadcast >= 5000 =>
               MsgsOf("SessionStats")' # << >>
        /\ MsgsOf("SessionStats")' # << >> =>
               /\ Len(MsgsOf("SessionStats")') = 1
               /\ now' - pstate.last_stats_broadcast >= 5000

StatsCount(m) ==
    m.delta_flips.count + m.absorptions.count + m.stacked_imbalances.count
        + m.confluences.count

\* two SignalRecords of the same signal (the outcome fields aside)
SameSignal(a, b) ==
    /\ a.timestamp = b.timestamp
    /\ a.signal_type = b.signal_type
    /\ a.direction = b.direction
    /\ a.price = b.price

\* the records of the history created later than 30 min before t
YoungerThanLimit(history, t) ==
    { i \in 1..Len(history) : t < history[i].timestamp + SIGNAL_RETENTION_MS }

\* the records of the history created no earlier than 30 min before t
NotOlderThanLimit(history, t) ==
    { i \in 1..Len(history) : t <= history[i].timestamp + SIGNAL_RETENTION_MS }

\* the last step was a tick that recorded a signal
SignalTick ==
    /\ lastOp = "tick"
    /\ \E i \in 1..Len(pstate.signal_history) :
           pstate.signal_history[i].timestamp = now

DominatedBucket(profile, p, side) ==
    /\ p \in DOMAIN PointBuckets(profile)
    /\ PointBuckets(profile)[p].buy + PointBuckets(profile)[p].sell >= 100
    /\ IF side = "buy"
       THEN 10 * PointBuckets(profile)[p].buy
                >= 7 * (PointBuckets(profile)[p].buy + PointBuckets(profile)[p].sell)
       ELSE 10 * PointBuckets(profile)[p].sell
                >= 7 * (PointBuckets(profile)[p].buy + PointBuckets(profile)[p].sell)

\* the integer buckets low, ..., high - 1 are all dominated by the side
DominatedRun(profile, low, high, side) ==
    \A p \in low..(high - 1) : DominatedBucket(profile, p, side)

\* C21: every emitted StackedImbalance describes a run of consecutive integer
\* 1-point buckets: price_high - price_low = level_count >= 4, each bucket
\* price_low, ..., price_high - 1 exists with buy + sell >= 100 and is
\* dominated by the reported side (a missing bucket breaks the streak), the
\* run is the longest such run and total_imbalance is the sum of |buy - sell|
\* over its buckets
C21_StackIsConsecutiveRun ==
    lastOp = "tick" =>
        \A i \in 1..Len(tx) :
            tx[i].kind = "StackedImbalance" =>
                /\ tx[i].price_high - tx[i].price_low = tx[i].level_count
                /\ tx[i].level_count >= 4
                /\ DominatedRun(pstate.volume_profile, tx[i].price_low,
                                tx[i].price_high, tx[i].side)
                /\ tx[i].total_imbalance =
                       SeqSum([ j \in 1..(tx[i].price_high - tx[i].price_low) |->
                                  IF tx[i].price_low + j - 1
                                         \in DOMAIN PointBuckets(pstate.volume_profile)
                                  THEN Abs(PointBuckets(pstate.volume_profile)
                                               [tx[i].price_low + j - 1].buy
                                           - PointBuckets(pstate.volume_profile)
                                               [tx[i].price_low + j - 1].sell)
                                  ELSE 0 ])
                /\ \A low \in DOMAIN PointBuckets(pstate.volume_profile),
                      sd \in {"buy", "sell"} :
                       ~DominatedRun(pstate.volume_profile, low,
                                     low + tx[i].level_count + 1, sd)

\* at time t the stacked-imbalance cooldown has elapsed, the best streak of
\* the profile has four levels or more and its side is not the side of the
\* last StackedImbalance emitted
StackDue(ps, t) ==
    /\ t - ps.last_stacked_imbalance_time >= STACK_COOLDOWN_MS
    /\ Len(BestStreak(ps.volume_profile).best) >= 4
    /\ BestStreak(ps.volume_profile).best_side # None
    /\ BestStreak(ps.volume_profile).best_side # ps.last_stacked_imbalance_side

\* the total size of the trades of a buffer
BufferVolume(buffer) == SeqSum([ i \in 1..Len(buffer) |-> buffer[i].size ])

\* a StackedImbalance sent by a step is the only one, names the best streak's
\* side and not the side emitted last
StackAlternates ==
    \A i \in 1..Len(tx') :
        tx'[i].kind = "StackedImbalance" =>
            /\ Len(MsgsOf("StackedImbalance")') = 1
            /\ Some(tx'[i].side) # pstate.last_stacked_imbalance_side
            /\ pstate'.last_stacked_imbalance_side = Some(tx'[i].side)

\* C22 as stated: a StackedImbalance is emitted at a tick iff the cooldown has
\* elapsed, the best streak has length >= 4 and its side differs from the side
\* of the last emitted StackedImbalance; consecutive emissions alternate
\* sides, and a same-side stack is suppressed indefinitely
C22_StatedEveryTick ==
    [][lastOp' = "tick" =>
           /\ MsgsOf("StackedImbalance")' # << >> <=> StackDue(pstate, now')
           /\ StackAlternates]_vars

\* C22 as amended: a StackedImbalance is emitted at a tick that finds trades
\* of non-zero total volume in the buffer iff the cooldown has elapsed, the
\* best streak has length >= 4 and its side differs from the side of the last
\* emitted StackedImbalance, and at no other tick; consecutive emissions
\* alternate sides, and a same-side stack is suppressed indefinitely
C22_NonEmptyTick ==
    [][lastOp' = "tick" =>
           /\ MsgsOf("StackedImbalance")' # << >> <=>
                  (BufferVolume(pstate.trade_buffer) > 0 /\ StackDue(pstate, now'))
           /\ StackAlternates]_vars

\* a tick on a window with volume, 30 s or more after a buy stack was emitted,
\* has found a buy stack again and sent none
C22_Witness ==
    /\ NonEmptyTick
    /\ pstate.last_stacked_imbalance_side = Some("buy")
    /\ now - pstate.last_stacked_imbalance_time >= STACK_COOLDOWN_MS
    /\ Len(BestStreak(pstate.volume_profile).best) >= 4
    /\ BestStreak(pstate.volume_profile).best_side = Some("buy")
    /\ "StackedImbalance" \notin TxKinds

\* the sign of a cumulative delta
SignOf(cvd) == IF cvd > 0 THEN 1 ELSE IF cvd < 0 THEN -1 ELSE 0

\* the stated condition of a delta flip at time t, on the state before the tick
\* and the cumulative delta after it
FlipDue(ps, cvd_after, t) ==
    /\ ps.prev_cvd_sign # 0
    /\ SignOf(cvd_after) # 0
    /\ ps.prev_cvd_sign # SignOf(cvd_after)
    /\ t - ps.last_delta_flip_time >= FLIP_COOLDOWN_MS

\* C23: at a tick that finds volume in the buffer a DeltaFlip is emitted iff the
\* previous sign and the current sign of the cumulative delta are both non-zero
\* and differ and at least 2000 ms have passed since the last flip (a flip exactly
\* 2000 ms after the previous one is emitted); its direction is bullish iff the
\* cumulative delta is positive; the previous sign becomes the current sign
\* whether or not a flip was emitted.
C23_FlipIffSignChange ==
    [][(lastOp' = "tick" /\ BufferVolume(pstate.trade_buffer) > 0) =>
          /\ MsgsOf("DeltaFlip")' # << >> <=> FlipDue(pstate, pstate'.cvd, now')
          /\ \A i \in 1..Len(tx') : tx'[i].kind = "DeltaFlip" =>
                 (tx'[i].direction = "bullish" <=> pstate'.cvd > 0)
          /\ pstate'.prev_cvd_sign = SignOf(pstate'.cvd)]_vars

\* the delta of a buffered window: the buy volume less all other volume
WindowDelta(buffer) ==
    2 * SideVolume(buffer, "buy") - BufferVolume(buffer)

\* the volume-weighted average price of the trades of the dominant side of a
\* window with a non-zero delta
DominantVwap(buffer) ==
    LET vwap(trades) ==
            Rat(SeqSum([ i \in 1..Len(trades) |-> trades[i].price * trades[i].size ]),
                BufferVolume(trades))
    IN  IF WindowDelta(buffer) > 0
        THEN vwap(SelectSeq(buffer, LAMBDA tr : tr.side = "buy"))
        ELSE vwap(SelectSeq(buffer, LAMBDA tr : tr.side # "buy"))

\* its quarter-point bucket
DominantVwapKey(buffer) == RoundKeyRat(DominantVwap(buffer))

\* buying absorbed: a positive delta of at least min_delta while the price rose
\* by no more than 0.25 points (2 eighths) from the first to the last trade
BuyingAbsorbed(delta, price_change, min_delta) ==
    Abs(delta) >= min_delta /\ delta > 0 /\ price_change <= 2

\* selling absorbed: a negative delta of at least min_delta while the price fell
\* by no more than 0.25 points
SellingAbsorbed(delta, price_change, min_delta) ==
    Abs(delta) >= min_delta /\ delta < 0 /\ price_change >= -2

\* the zone at key k of registry `after` is the zone of registry `before`
\* (or a new one) with one more event and abs_delta more absorbed, every other
\* zone being as it was
OneZoneTouched(before, after, k, abs_delta) ==
    /\ DOMAIN after = DOMAIN before \cup {k}
    /\ \A j \in DOMAIN before \ {k} : after[j] = before[j]
    /\ after[k].price_key = k
    /\ after[k].event_count =
           (IF k \in DOMAIN before THEN before[k].event_count ELSE 0) + 1
    /\ after[k].total_absorbed =
           (IF k \in DOMAIN before THEN before[k].total_absorbed ELSE 0) + abs_delta

\* the absorption test of a tick, on the window's delta, price change and
\* threshold and the registry after expiry
ZoneTouchedIffAbsorbed(buffer, delta, price_change, min_delta, before, after) ==
    /\ after # before <=> \/ BuyingAbsorbed(delta, price_change, min_delta)
                          \/ SellingAbsorbed(delta, price_change, min_delta)
    /\ ~(/\ BuyingAbsorbed(delta, price_change, min_delta)
         /\ SellingAbsorbed(delta, price_change, min_delta))
    /\ delta = 0 => after = before
    /\ after # before =>
           OneZoneTouched(before, after, DominantVwapKey(buffer), Abs(delta))

\* C24: at a tick that finds trades in the buffer a zone is created or updated
\* iff |delta| >= min_delta and either delta > 0 and the price change of the
\* window is <= +0.25 or delta < 0 and it is >= -0.25; the two cases exclude
\* each other, a window of delta 0 touches no zone, and the zone touched is the
\* one at the quarter-point bucket of the dominant side's VWAP, with one more
\* event and |delta| more absorbed.
C24_ZoneTouchedIffAbsorbed ==
    [][(lastOp' = "tick" /\ pstate.trade_buffer # << >>) =>
          ZoneTouchedIffAbsorbed(
              pstate.trade_buffer,
              WindowDelta(pstate.trade_buffer),
              Unwrap(pstate.window_last_price) - Unwrap(pstate.window_first_price),
              MinDeltaThreshold(pstate'.volume_history, now'),
              CleanupOldZones(pstate.absorption_zones, now'),
              pstate'.absorption_zones)]_vars

\* a tick has added a second event to a zone, and another zone was left alone
C24_Witness ==
    /\ NonEmptyTick
    /\ \E k \in DOMAIN pstate.absorption_zones :
           /\ pstate.absorption_zones[k].last_seen = now
           /\ pstate.absorption_zones[k].event_count >= 2
    /\ \E k \in DOMAIN pstate.absorption_zones :
           pstate.absorption_zones[k].last_seen < now

\* the threshold as stated: 0.4 times the mean total volume of the windows of
\* the last 30 s, at least 20, and 0.4 * 200 when there is no such window
StatedMinDelta(history, t) ==
    LET threshold(recent) ==
            IF recent = << >>
            THEN Max((DEFAULT_AVG_VOLUME * 4) \div 10, MIN_DELTA_FLOOR)
            ELSE Max((SeqSum([ i \in 1..Len(recent) |-> recent[i].volume ]) * 4)
                         \div (Len(recent) * 10),
                     MIN_DELTA_FLOOR)
    IN  threshold(SelectSeq(history,
                            LAMBDA e : e.timestamp >= SatSub(t, AVG_VOLUME_SECONDS * 1000)))

\* C25: the absorption test of a tick uses min_delta = max(0.4 * avg_vol30, 20),
\* avg_vol30 being the average total volume of the windows of the last 30 s and
\* 200 when there is none, so that a first-ever window is tested against 80.
C25_StatedThreshold ==
    [][(lastOp' = "tick" /\ pstate.trade_buffer # << >>) =>
          ZoneTouchedIffAbsorbed(
              pstate.trade_buffer,
              WindowDelta(pstate.trade_buffer),
              Unwrap(pstate.window_last_price) - Unwrap(pstate.window_first_price),
              StatedMinDelta(pstate.volume_history, now'),
              CleanupOldZones(pstate.absorption_zones, now'),
              pstate'.absorption_zones)]_vars

\* the strength as stated: min(3, min(3, event_count - 1) + bonuses)
StatedStrength(event_count, at_key_level, against_trend) ==
    Min(3, Min(3, event_count - 1)
           + (IF at_key_level THEN 1 ELSE 0)
           + (IF against_trend THEN 1 ELSE 0))

\* the names of the strengths 0..3
StrengthName(n) == << "weak", "medium", "strong", "defended" >>[n + 1]

\* against the trend: buying absorbed while the cvd rose by more than 100 over
\* the last 5 s, or selling absorbed while it fell by more than 100
StatedAgainstTrend(absorption_type, cvd, cvd_5s_ago) ==
    \/ absorption_type = "buying" /\ cvd - cvd_5s_ago > TREND_THRESHOLD
    \/ absorption_type = "selling" /\ cvd - cvd_5s_ago < -TREND_THRESHOLD

\* an AbsorptionEvent carries the stated strength of its own event count and
\* flags, and its against-trend flag is the stated one
EventStrengthAsStated(e, ps) ==
    /\ e.strength = StrengthName(StatedStrength(e.event_count, e.at_key_level,
                                                e.against_trend))
    /\ e.against_trend <=> StatedAgainstTrend(e.absorption_type, ps.cvd, ps.cvd_5s_ago)

\* C26: the strength of an absorption event is min(3, min(3, event_count - 1)
\* + [at POC, VAH or VAL] + [against the CVD trend]), named weak, medium,
\* strong, defended; against the trend means buying absorbed with
\* cvd - cvd_5s_ago > 100 or selling absorbed with cvd - cvd_5s_ago < -100; a
\* zone that has counted four windows is defended (peak 3).
C26_Strength ==
    [][lastOp' = "tick" =>
          /\ \A i \in 1..Len(tx') : tx'[i].kind = "Absorption" =>
                 EventStrengthAsStated(tx'[i], pstate')
          /\ \A k \in DOMAIN pstate'.absorption_zones :
                 pstate'.absorption_zones[k].event_count >= 4 =>
                     pstate'.absorption_zones[k].peak_strength = 3]_vars

\* the fourth window of a zone was absorbed against the trend
C26_Witness ==
    /\ NonEmptyTick
    /\ \E i \in 1..Len(tx) :
           /\ tx[i].kind = "Absorption"
           /\ tx[i].event_count = 4
           /\ tx[i].against_trend
           /\ tx[i].strength = "defended"

\* the absorption records of signal_history made at time t
AbsorptionRecords(history, t) ==
    SelectSeq(history, LAMBDA r : r.signal_type = "absorption" /\ r.timestamp = t)

\* the emission gate on the updated zone z, for the key-level flag at_key_level
\* and the against-trend flag against_trend: events are the AbsorptionEvents
\* and records the absorption records of the tick
GateAsStated(z, at_key_level, against_trend, events, records) ==
    /\ events # << >> <=>
           \/ StatedStrength(z.event_count, at_key_level, against_trend) # 0
           \/ z.event_count = 1 /\ at_key_level
    /\ events # << >> =>
           /\ Len(events) = 1
           /\ events[1].at_key_level = at_key_level
           /\ events[1].event_count = z.event_count
           /\ events[1].total_absorbed = z.total_absorbed
           /\ Len(records) = 1
           /\ records[1].direction = IF z.absorption_type = "buying" THEN "bearish"
                                     ELSE "bullish"
    /\ events = << >> => records = << >>

\* the gate of a tick that touched the zone at key k, under the point of
\* control the tick picked among the levels of highest volume
ZoneUpdateGated(ps, k, vwap, events, records) ==
    \E poc_key \in PocChoices(ps.volume_profile) :
        \E at \in { IsAtKeyLevel(ps.volume_profile, poc_key, vwap) } :
            GateAsStated(ps.absorption_zones[k],
                         at[1] \/ at[2] \/ at[3],
                         StatedAgainstTrend(ps.absorption_zones[k].absorption_type,
                                            ps.cvd, ps.cvd_5s_ago),
                         events, records)

\* C27: for every zone update an AbsorptionEvent is emitted iff the computed
\* strength is not weak or it is the zone's first event and the price is at a
\* key level; the event carries the zone's event_count and total_absorbed after
\* the update and one absorption SignalRecord is recorded, bearish for buying
\* absorbed and bullish for selling absorbed; when no event is emitted the zone
\* is updated all the same and no signal is recorded; a tick that updates no
\* zone emits no AbsorptionEvent.
C27_EmissionGate ==
    [][(lastOp' = "tick" /\ pstate.trade_buffer # << >>) =>
          IF pstate'.absorption_zones
                 # CleanupOldZones(pstate.absorption_zones, now')
          THEN ZoneUpdateGated(pstate',
                               DominantVwapKey(pstate.trade_buffer),
                               DominantVwap(pstate.trade_buffer),
                               MsgsOf("Absorption")',
                               AbsorptionRecords(pstate'.signal_history, now'))
          ELSE /\ MsgsOf("Absorption")' = << >>
               /\ AbsorptionRecords(pstate'.signal_history, now') = << >>]_vars

\* a tick updated a zone without emitting an AbsorptionEvent
C27_Witness ==
    /\ NonEmptyTick
    /\ \E k \in DOMAIN pstate.absorption_zones :
           pstate.absorption_zones[k].last_seen = now
    /\ "Absorption" \notin TxKinds

\* the zones of a registry that have counted at least two events, as an
\* AbsorptionZones artifact lists them: strength is the name of peak_strength
ActiveZones(zones) ==
    { [ price |-> zones[k].price,
        event_count |-> zones[k].event_count,
        total_absorbed |-> zones[k].total_absorbed,
        last_seen |-> zones[k].last_seen,
        strength |-> StrengthName(zones[k].peak_strength) ] :
      k \in { j \in DOMAIN zones : zones[j].event_count >= 2 } }

\* the zones an AbsorptionZones artifact lists, on the same fields
ListedZones(msg) ==
    { [ price |-> z.price,
        event_count |-> z.event_count,
        total_absorbed |-> z.total_absorbed,
        last_seen |-> z.last_seen,
        strength |-> z.strength ] : z \in msg.zones }

\* the AbsorptionZones artifacts msgs list exactly the active zones of the
\* registry, in one artifact, and there is none when no zone is active
ZonesListed(zones, msgs) ==
    IF ActiveZones(zones) = {} THEN msgs = << >>
    ELSE /\ Len(msgs) = 1
         /\ ListedZones(msgs[1]) = ActiveZones(zones)
         /\ Cardinality(msgs[1].zones) = Cardinality(ActiveZones(zones))

\* C28 as stated: on every tick where at least one zone of the registry has
\* event_count >= 2 an AbsorptionZones artifact is emitted that lists exactly
\* the zones with event_count >= 2, each with the name of its peak_strength as
\* strength; when no zone has event_count >= 2 none is emitted.
C28_StatedEveryTick ==
    [][lastOp' = "tick" =>
          ZonesListed(pstate'.absorption_zones, MsgsOf("AbsorptionZones")')]_vars

\* C28, amended: the same on every tick that finds trades of non-zero total
\* volume in the buffer; any other tick emits no AbsorptionZones artifact.
C28_NonEmptyTick ==
    [][lastOp' = "tick" =>
          IF BufferVolume(pstate.trade_buffer) > 0
          THEN ZonesListed(pstate'.absorption_zones, MsgsOf("AbsorptionZones")')
          ELSE MsgsOf("AbsorptionZones")' = << >>]_vars

\* a tick listed a zone of two or more events while the registry held it
C28_Witness ==
    /\ NonEmptyTick
    /\ MsgsOf("AbsorptionZones") # << >>
    /\ ActiveZones(pstate.absorption_zones) # {}
    /\ \E k \in DOMAIN pstate.absorption_zones :
           pstate.absorption_zones[k].event_count = 1

\* the tier of a zone: 5 min for peak 0-1, 15 min for peak 2, 30 min for peak 3
ZoneTier(z) ==
    CASE z.peak_strength <= 1 -> ZONE_AGE_WEAK_MS
      [] z.peak_strength = 2 -> ZONE_AGE_STRONG_MS
      [] OTHER -> ZONE_AGE_DEFENDED_MS

\* C29: after any tick at engine time now, a tick on an empty buffer included,
\* the registry holds no zone with now - last_seen greater than its tier (and
\* no zone within its tier is evicted: expiry precedes the empty-buffer check).
C29_NoExpiredZoneAfterTick ==
    lastOp = "tick" =>
        \A k \in DOMAIN pstate.absorption_zones :
            now - pstate.absorption_zones[k].last_seen
                <= ZoneTier(pstate.absorption_zones[k])

\* the signals recorded up to the i-th record of a history that are not older
\* than 5000 ms at time t: the recent list as stated, the i-th record included
RecentAsStated(history, i, t) ==
    SelectSeq(SubSeq(history, 1, i),
              LAMBDA r : /\ r.signal_type # "confluence"
                         /\ r.timestamp >= t - CONFLUENCE_WINDOW_MS)

\* the latest occurrence of kind ty in a list of signals
LatestOf(recent, ty) ==
    recent[CHOOSE j \in 1..Len(recent) :
               /\ recent[j].signal_type = ty
               /\ \A l \in (j + 1)..Len(recent) : recent[l].signal_type # ty]

\* at least two distinct kinds whose latest occurrences have direction d
Agreeing(recent, d) ==
    Cardinality({ ty \in { recent[j].signal_type : j \in 1..Len(recent) } :
                    LatestOf(recent, ty).direction = d }) >= 2

\* the i-th record of the history is followed by the confluence record of the
\* same call of record_signal
ConfluenceFollows(history, i, t) ==
    /\ i < Len(history)
    /\ history[i + 1].signal_type = "confluence"
    /\ history[i + 1].timestamp = t

\* the last confluence before the i-th record, a tick at t having started
\* with last_confluence_time = last
LastConfluence(history, i, t, last) ==
    IF \E j \in 1..(i - 1) : /\ history[j].signal_type = "confluence"
                             /\ history[j].timestamp = t
    THEN t ELSE last

\* every signal recorded by the tick at t is followed by a confluence exactly
\* when the cooldown has elapsed and two kinds of the recent list agree, and
\* the confluence has the direction they share
ConfluenceAsStated(history, t, last) ==
    \A i \in 1..Len(history) :
        (history[i].timestamp = t /\ history[i].signal_type # "confluence") =>
            /\ ConfluenceFollows(history, i, t) <=>
                   /\ t - LastConfluence(history, i, t, last) >= CONFLUENCE_COOLDOWN_MS
                   /\ \/ Agreeing(RecentAsStated(history, i, t), "bullish")
                      \/ Agreeing(RecentAsStated(history, i, t), "bearish")
            /\ ConfluenceFollows(history, i, t) =>
                   Agreeing(RecentAsStated(history, i, t), history[i + 1].direction)

\* the ConfluenceEvents sent are those of the confluence records of the tick
ConfluencesSent(history, t, msgs) ==
    /\ Len(msgs) = Len(SelectSeq(history, LAMBDA r : /\ r.signal_type = "confluence"
                                                     /\ r.timestamp = t))
    /\ \A m \in 1..Len(msgs) :
           \E i \in 1..Len(history) :
               /\ history[i].signal_type = "confluence"
               /\ history[i].timestamp = t
               /\ history[i].direction = msgs[m].direction

\* C30: a ConfluenceEvent is emitted when a signal is recorded at time now iff
\* now - last_confluence >= 10000 and the recent list (the signals not older
\* than 5000 ms, the one just recorded included) has at least two distinct
\* kinds whose latest occurrences share a direction; the event has that
\* direction; after record_signal the recent list holds no signal older than
\* 5000 ms.
C30_Confluence ==
    [][lastOp' = "tick" =>
          /\ ConfluenceAsStated(pstate'.signal_history, now',
                                pstate.last_confluence_time)
          /\ ConfluencesSent(pstate'.signal_history, now', MsgsOf("Confluence")')
          /\ (\E i \in 1..Len(pstate'.signal_history) :
                  pstate'.signal_history[i].timestamp = now') =>
                 \A j \in 1..Len(pstate'.recent_signals) :
                     pstate'.recent_signals[j].ts >= now' - CONFLUENCE_WINDOW_MS]_vars

\* a tick sent a ConfluenceEvent exactly 10000 ms after the previous one
C30_Witness ==
    /\ NonEmptyTick
    /\ MsgsOf("Confluence") # << >>
    /\ \E i \in 1..Len(pstate.signal_history) :
           /\ pstate.signal_history[i].signal_type = "confluence"
           /\ pstate.signal_history[i].timestamp = now - CONFLUENCE_COOLDOWN_MS

\* the kinds of a list of signals
KindsOf(recent) == { recent[j].signal_type : j \in 1..Len(recent) }

\* the signals a tick at t recorded after the i-th record of the history, as
\* the recent list keeps them
RecordedAfter(history, i, t) ==
    [ j \in 1..(Len(history) - i) |->
        [ ts |-> history[i + j].timestamp,
          signal_type |-> history[i + j].signal_type,
          direction |-> history[i + j].direction,
          price |-> history[i + j].price ] ]

\* the confluence record at index i + 1 of the history, made by the tick at t
\* that sent msgs and left the recent list recent: the event counts and lists
\* the kinds of the recent list of that moment, and the list was cleared there
ConfluenceScored(history, i, t, msgs, recent) ==
    /\ Len(msgs) = 1
    /\ msgs[1].signals = KindsOf(RecentAsStated(history, i, t))
    /\ msgs[1].score = Cardinality(KindsOf(RecentAsStated(history, i, t)))
    /\ msgs[1].signals \subseteq { "delta_flip", "absorption", "stacked_imbalance" }
    /\ msgs[1].score \in 2..3
    /\ msgs[1].direction = history[i + 1].direction
    /\ recent = RecordedAfter(history, i + 1, t)

\* C31: every ConfluenceEvent has as score the number of distinct kinds of the
\* recent list of that moment, a kind whose latest direction disagrees
\* included, and lists exactly those kinds; on emission the recent list is
\* cleared and one confluence SignalRecord is appended to the history; a
\* confluence is never in the recent list, so the kinds listed are among
\* delta_flip, absorption and stacked_imbalance and the score is 2 or 3.
C31_ConfluenceScore ==
    [][lastOp' = "tick" =>
          /\ \A j \in 1..Len(pstate'.recent_signals) :
                 pstate'.recent_signals[j].signal_type # "confluence"
          /\ Len(MsgsOf("Confluence")') =
                 Len(SelectSeq(pstate'.signal_history,
                               LAMBDA r : /\ r.signal_type = "confluence"
                                          /\ r.timestamp = now'))
          /\ Len(MsgsOf("Confluence")') <= 1
          /\ \A i \in 1..(Len(pstate'.signal_history) - 1) :
                 ConfluenceFollows(pstate'.signal_history, i, now') =>
                     ConfluenceScored(pstate'.signal_history, i, now',
                                      MsgsOf("Confluence")',
                                      pstate'.recent_signals)]_vars

\* a ConfluenceEvent of score 3 one of whose kinds disagrees with its direction
C31_Witness ==
    /\ NonEmptyTick
    /\ \E i \in 1..(Len(pstate.signal_history) - 1) :
           /\ ConfluenceFollows(pstate.signal_history, i, now)
           /\ Cardinality(KindsOf(RecentAsStated(pstate.signal_history, i, now))) = 3
           /\ \E ty \in KindsOf(RecentAsStated(pstate.signal_history, i, now)) :
                  LatestOf(RecentAsStated(pstate.signal_history, i, now), ty).direction
                      # pstate.signal_history[i + 1].direction

\* C32: after any tick at engine time now every retained SignalRecord of age
\* 60 s or more has its price_after_1m and every one of age 300 s or more its
\* price_after_5m and outcome, whether or not a signal was emitted since the
\* record was made.
C32_OutcomesFilledAtEveryTick ==
    lastOp = "tick" =>
        \A i \in 1..Len(pstate.signal_history) :
            /\ now - pstate.signal_history[i].timestamp >= ONE_MINUTE_MS =>
                   pstate.signal_history[i].price_after_1m # None
            /\ now - pstate.signal_history[i].timestamp >= FIVE_MINUTES_MS =>
                   /\ pstate.signal_history[i].price_after_5m # None
                   /\ pstate.signal_history[i].outcome # None

\* the record of history that a record r of an earlier history has become, if
\* it is retained: a tick records at most one signal of a kind
SameRecord(r, q) == q.timestamp = r.timestamp /\ q.signal_type = r.signal_type

\* C33: every SignalRecord is mutated exactly twice during its life, in two
\* distinct steps, price_after_1m first and price_after_5m with the outcome
\* later: no step fills both, and a record is evicted only with both filled.
C33_TwoDistinctFills ==
    [][\A i \in 1..Len(pstate.signal_history) :
          /\ \A j \in 1..Len(pstate'.signal_history) :
                 SameRecord(pstate.signal_history[i], pstate'.signal_history[j]) =>
                     ~(/\ pstate.signal_history[i].price_after_1m = None
                       /\ pstate'.signal_history[j].price_after_1m # None
                       /\ pstate'.signal_history[j].price_after_5m # None)
          /\ (\A j \in 1..Len(pstate'.signal_history) :
                  ~SameRecord(pstate.signal_history[i], pstate'.signal_history[j])) =>
                 /\ pstate.signal_history[i].price_after_1m # None
                 /\ pstate.signal_history[i].price_after_5m # None]_vars

\* the outcome as stated, for a move of num / den points (den > 0): a win if
\* the price moved 2 points or more the way of the record, a loss if it moved
\* 2 points or more against it
StatedOutcome(direction, num, den) ==
    IF direction = "bullish"
    THEN IF num >= 2 * den THEN "win"
         ELSE IF num <= -2 * den THEN "loss" ELSE "breakeven"
    ELSE IF num <= -2 * den THEN "win"
         ELSE IF num >= 2 * den THEN "loss" ELSE "breakeven"

\* the record q, whose price_after_5m has just been filled, is classified by
\* the move from its price to that price (prices in eighths of a point)
ClassifiedAsStated(q) ==
    q.outcome =
        Some(StatedOutcome(q.direction,
                           Unwrap(q.price_after_5m).n * q.price.d
                               - q.price.n * Unwrap(q.price_after_5m).d,
                           8 * Unwrap(q.price_after_5m).d * q.price.d))

\* the number of records of a kind in a history with a given outcome
OutcomeCount(history, signal_type, outcome) ==
    Len(SelectSeq(history, LAMBDA r : /\ r.signal_type = signal_type
                                      /\ r.outcome = Some(outcome)))

\* the statistics st of a kind give wins, losses and the rate 100 * wins /
\* (wins + losses) over the history, 0 when there is neither win nor loss
RateAsStated(st, history, signal_type) ==
    /\ st.wins = OutcomeCount(history, signal_type, "win")
    /\ st.losses = OutcomeCount(history, signal_type, "loss")
    /\ IF st.wins + st.losses = 0 THEN st.win_rate.n = 0
       ELSE st.win_rate.n * (st.wins + st.losses) = 100 * st.wins * st.win_rate.d

\* C34: when price_after_5m is filled the outcome of a bullish record is win
\* for a move of +2 points or more, loss for -2 or less, else breakeven, and
\* symmetrically for a bearish record; the win_rate of a kind in SessionStats
\* is 100 * wins / (wins + losses) over the retained records, 0 when there is
\* neither, breakevens counting in neither.
C34_OutcomeAndWinRate ==
    [][lastOp' = "tick" =>
          /\ \A i \in 1..Len(pstate.signal_history) :
                 \A j \in 1..Len(pstate'.signal_history) :
                     (/\ SameRecord(pstate.signal_history[i], pstate'.signal_history[j])
                      /\ pstate.signal_history[i].price_after_5m = None
                      /\ pstate'.signal_history[j].price_after_5m # None) =>
                         ClassifiedAsStated(pstate'.signal_history[j])
          /\ \A m \in 1..Len(tx') : tx'[m].kind = "SessionStats" =>
                 /\ RateAsStated(tx'[m].delta_flips, pstate'.signal_history,
                                 "delta_flip")
                 /\ RateAsStated(tx'[m].absorptions, pstate'.signal_history,
                                 "absorption")
                 /\ RateAsStated(tx'[m].stacked_imbalances, pstate'.signal_history,
                                 "stacked_imbalance")
                 /\ RateAsStated(tx'[m].confluences, pstate'.signal_history,
                                 "confluence")]_vars

\* a SessionStats that counts a win, a loss and a breakeven
C34_Witness ==
    /\ NonEmptyTick
    /\ \E m \in 1..Len(tx) :
           /\ tx[m].kind = "SessionStats"
           /\ tx[m].absorptions.wins >= 1
           /\ tx[m].absorptions.losses >= 1
    /\ \E i \in 1..Len(pstate.signal_history) :
           pstate.signal_history[i].outcome = Some("breakeven")

\* the direction an AbsorptionEvent is recorded with
AbsorptionDirection(e) == IF e.absorption_type = "buying" THEN "bearish" ELSE "bullish"

\* the DeltaFlips and AbsorptionEvents among msgs have opposite directions
FlipOpposesAbsorption(msgs) ==
    \A i \in 1..Len(msgs) : \A j \in 1..Len(msgs) :
        (msgs[i].kind = "DeltaFlip" /\ msgs[j].kind = "Absorption") =>
            msgs[i].direction # AbsorptionDirection(msgs[j])

\* a confluence of a delta flip and an absorption alone, made by the tick at t
\* after the i-th record of the history, rests on a signal of an earlier tick
FlipAbsorptionFromTwoTicks(history, i, t) ==
    KindsOf(RecentAsStated(history, i, t)) = { "delta_flip", "absorption" } =>
        \/ LatestOf(RecentAsStated(history, i, t), "delta_flip").timestamp < t
        \/ LatestOf(RecentAsStated(history, i, t), "absorption").timestamp < t

\* C35: a DeltaFlip and an AbsorptionEvent emitted in the same tick have
\* opposite directions, so the two never make a confluence by themselves: a
\* confluence of a flip and an absorption needs the two signals to come from
\* different ticks.
C35_FlipOpposesAbsorption ==
    [][lastOp' = "tick" =>
          /\ FlipOpposesAbsorption(tx')
          /\ \A i \in 1..(Len(pstate'.signal_history) - 1) :
                 ConfluenceFollows(pstate'.signal_history, i, now') =>
                     FlipAbsorptionFromTwoTicks(pstate'.signal_history, i, now')]_vars

\* a tick emitted a DeltaFlip, an AbsorptionEvent and the ConfluenceEvent of
\* the flip with an absorption of an earlier tick
C35_Witness ==
    /\ NonEmptyTick
    /\ { "DeltaFlip", "Absorption", "Confluence" } \subseteq TxKinds
    /\ \E m \in 1..Len(tx) :
           tx[m].kind = "Confluence" /\ tx[m].signals = { "delta_flip", "absorption" }

\* the fields of the state that record_signal writes
SignalFields(ps) ==
    << ps.signal_history, ps.recent_signals, ps.session_high, ps.session_low,
       ps.current_price, ps.last_stats_broadcast, ps.last_confluence_time >>

\* C36: a tick that emits no DeltaFlip, no AbsorptionEvent and no
\* StackedImbalance leaves signal_history, recent_signals, session_high,
\* session_low, current_price, last_stats_broadcast and last_confluence_time
\* as they were and emits neither a ConfluenceEvent nor a SessionStats;
\* add_trade never changes any of these fields.
C36_SignalFrame ==
    [][/\ (/\ lastOp' = "tick"
           /\ TxKinds' \cap { "DeltaFlip", "Absorption", "StackedImbalance" } = {}) =>
              /\ SignalFields(pstate') = SignalFields(pstate)
              /\ TxKinds' \cap { "Confluence", "SessionStats" } = {}
       /\ lastOp' = "add_trade" => SignalFields(pstate') = SignalFields(pstate)]_vars

\* a tick on trades emitted no signal while a record of the history was due
\* for its one-minute price
C36_Witness ==
    /\ NonEmptyTick
    /\ TxKinds \cap { "DeltaFlip", "Absorption", "StackedImbalance" } = {}
    /\ \E i \in 1..Len(pstate.signal_history) :
           /\ now - pstate.signal_history[i].timestamp >= ONE_MINUTE_MS
           /\ pstate.signal_history[i].price_after_1m = None

\* a record has its outcome exactly when it has its five-minute price, and
\* its one-minute price whenever it has its five-minute price
OutcomeFieldsConsistent(r) ==
    /\ r.outcome # None <=> r.price_after_5m # None
    /\ r.price_after_5m # None => r.price_after_1m # None

\* what is set in record r is the same in the record q it has become
OutcomeFieldsKept(r, q) ==
    /\ r.price_after_1m # None => q.price_after_1m = r.price_after_1m
    /\ r.price_after_5m # None => q.price_after_5m = r.price_after_5m
    /\ r.outcome # None => q.outcome = r.outcome

\* C37: in every reachable state every retained SignalRecord has its outcome
\* iff it has price_after_5m, and price_after_1m if it has price_after_5m;
\* price_after_1m, price_after_5m and outcome, once set, keep their value
\* until the record is evicted.
C37_OutcomeFields ==
    /\ [](\A i \in 1..Len(pstate.signal_history) :
              OutcomeFieldsConsistent(pstate.signal_history[i]))
    /\ [][\A i \in 1..Len(pstate.signal_history) :
              \A j \in 1..Len(pstate'.signal_history) :
                  SameRecord(pstate.signal_history[i], pstate'.signal_history[j]) =>
                      OutcomeFieldsKept(pstate.signal_history[i],
                                        pstate'.signal_history[j])]_vars

\* a record that had its one-minute price only has received its five-minute
\* price and outcome at a tick whose price differs from the one-minute price
C37_Witness ==
    /\ NonEmptyTick
    /\ \E i \in 1..Len(pstate.signal_history) :
           /\ pstate.signal_history[i].outcome # None
           /\ pstate.signal_history[i].price_after_1m
                  # pstate.signal_history[i].price_after_5m

\* C38: no emitted artifact carries the strength weak: every AbsorptionEvent
\* is medium, strong or defended, every zone an AbsorptionZones artifact lists
\* has a peak_strength of 1 or more, i.e. a strength other than weak, and every
\* zone of the registry has peak_strength >= min(3, event_count - 1).
C38_NeverWeak ==
    /\ \A i \in 1..Len(tx) :
           /\ tx[i].kind = "Absorption" =>
                  tx[i].strength \in { "medium", "strong", "defended" }
           /\ tx[i].kind = "AbsorptionZones" =>
                  \A z \in tx[i].zones : z.strength \in { "medium", "strong", "defended" }
    /\ \A k \in DOMAIN pstate.absorption_zones :
           pstate.absorption_zones[k].peak_strength
               >= Min(3, pstate.absorption_zones[k].event_count - 1)

\* a tick on trades updated a zone to its second event, away from every key
\* level and with the trend, and listed it
C38_Witness ==
    /\ NonEmptyTick
    /\ "Absorption" \in TxKinds /\ "AbsorptionZones" \in TxKinds
    /\ \E k \in DOMAIN pstate.absorption_zones :
           /\ pstate.absorption_zones[k].last_seen = now
           /\ pstate.absorption_zones[k].event_count = 2
           /\ pstate.absorption_zones[k].peak_strength = 1

\* the trades of the dominant side of a window: the buys when they outweigh
\* every other trade, else the trades that are not buys
DominantTrades(buffer) ==
    IF WindowDelta(buffer) > 0
    THEN SelectSeq(buffer, LAMBDA tr : tr.side = "buy")
    ELSE SelectSeq(buffer, LAMBDA tr : tr.side # "buy")

\* a tick on a window of positive volume finds a trade and a positive volume
\* on the dominant side, prices the Bubble at that side's volume-weighted
\* average and sizes it with at least half of the window's volume
BubbleAtDominantVwap ==
    lastOp' = "tick" /\ BufferVolume(pstate.trade_buffer) > 0 =>
        /\ DominantTrades(pstate.trade_buffer) # << >>
        /\ BufferVolume(DominantTrades(pstate.trade_buffer)) > 0
        /\ WindowOf(pstate.trade_buffer).vwap_branch
        /\ MsgsOf("Bubble")' # << >>
        /\ MsgsOf("Bubble")'[1].price = DominantVwap(pstate.trade_buffer)
        /\ MsgsOf("Bubble")'[1].size =
               BufferVolume(DominantTrades(pstate.trade_buffer))
        /\ 2 * MsgsOf("Bubble")'[1].size >= BufferVolume(pstate.trade_buffer)

\* C39: in every tick whose window has a total volume above zero the dominant
\* side has at least one trade and a positive volume, so the Bubble price is
\* the dominant side's volume-weighted average, the arithmetic-mean branch is
\* not taken, the division is by a positive size, and the Bubble size is at
\* least half of the window's total volume
C39_DominantVwap == [][BubbleAtDominantVwap]_vars

\* the first tick, on a window of a buy of size 0 at 100.50 and a buy of 20
\* at 100.00, has sent a buy Bubble of 20 at 100.00, not at their mean 100.25
C39_Witness ==
    /\ NonEmptyTick
    /\ nTicks = 1
    /\ BagCardinality(aggregated) = 2
    /\ \E tr \in BagToSet(aggregated) : tr.size = 0 /\ tr.price = 804
    /\ \E tr \in BagToSet(aggregated) : tr.size = 20 /\ tr.side = "buy"
    /\ tx[1].side = "buy"
    /\ tx[1].size = 20
    /\ tx[1].price = RatInt(800)

\* the sum of the sizes of a bag of trades
BagVolume(bag) ==
    SetSum(BagToSet(bag), [ tr \in BagToSet(bag) |-> CopiesIn(tr, bag) * tr.size ])

\* the prices of the signals recorded up to the first record_signal of the
\* tick at time t, the call that sends the SessionStats of the tick: those of
\* the records of earlier ticks and that of the first record of this tick
PricesRecorded(history, t) ==
    LET first(at) == IF at = << >> THEN {} ELSE { at[1].price }
    IN  { history[i].price :
            i \in { j \in 1..Len(history) : history[j].timestamp < t } }
        \cup first(SelectSeq(history, LAMBDA r : r.timestamp = t))

\* m carries the price of the signal that sent it, the highest and the lowest
\* of the signal prices recorded so far, and the volume ingested so far
StatsAsStated(m, prices, price, volume) ==
    /\ m.current_price = price
    /\ RatLeq(m.session_low, m.current_price)
    /\ RatLeq(m.current_price, m.session_high)
    /\ m.session_high \in prices
    /\ m.session_low \in prices
    /\ \A p \in prices : RatLeq(m.session_low, p) /\ RatLeq(p, m.session_high)
    /\ m.total_volume = volume

\* C40: with signal prices above zero every SessionStats sent has
\* session_low <= current_price <= session_high, its session_high and
\* session_low are the maximum and the minimum of the signal prices recorded
\* so far (not of the trade prices), and its total_volume is the sum of the
\* sizes of all trades ingested so far
C40_SessionStats ==
    lastOp = "tick" =>
        \A i \in 1..Len(MsgsOf("SessionStats")) :
            /\ \E r \in { SelectSeq(pstate.signal_history,
                                    LAMBDA q : q.timestamp = now) } :
                   /\ r # << >>
                   /\ StatsAsStated(MsgsOf("SessionStats")[i],
                                    PricesRecorded(pstate.signal_history, now),
                                    r[1].price, BagVolume(ingested))
            /\ \A q \in PricesRecorded(pstate.signal_history, now) :
                   RatLt(RatInt(0), q)

\* a tick has sent a SessionStats whose current_price lies strictly between
\* its session_low and its session_high, the latter below a price traded
C40_Witness ==
    /\ lastOp = "tick"
    /\ \E i \in 1..Len(MsgsOf("SessionStats")) :
           /\ RatLt(MsgsOf("SessionStats")[i].session_low,
                    MsgsOf("SessionStats")[i].current_price)
           /\ RatLt(MsgsOf("SessionStats")[i].current_price,
                    MsgsOf("SessionStats")[i].session_high)
           /\ \E tr \in BagToSet(ingested) :
                  RatLt(MsgsOf("SessionStats")[i].session_high, RatInt(tr.price))

=============================================================================
